---- MODULE Spec2Model ----
(***************************************************************************)
(* Model of the inference transport of ServerClient_Python:                *)
(*   - the binary wire codec            (binary_protocol.py)               *)
(*   - the retrying transport client    (request_tools.py)                 *)
(*   - the binary inference endpoint    (server.py)                        *)
(*   - the base64/JSON inference server (Flask_Demo1/...)                  *)
(*                                                                         *)
(* Byte strings are modelled as sequences of tokens (TLA+ strings): one    *)
(* token per pickle opcode or operand.  Python values are records tagged   *)
(* by a field t.  A function that may raise returns a record whose field   *)
(* ok tells whether it returned (val / bytes) or raised (err).             *)
(***************************************************************************)
EXTENDS Integers, Sequences, FiniteSets, TLC

\* ------------------------------------------------------------------ bounds
MaxRetries == 4
NumReqs == 2
NumUpds == 2
MaxItems == 2

\* ------------------------------------------------------- program constants
HIGHEST_PROTOCOL == 5
DefaultTimeout == 10
TextPrefixLen == 200
MaxByte == 255

\* ---------------------------------------------------------- Python values
Str(s) == [t |-> "str", s |-> s]
Num(n) == [t |-> "num", n |-> n]
PyNone == [t |-> "none"]
Buf(dtype, shape, data) == [t |-> "buf", dtype |-> dtype, shape |-> shape, data |-> data]
Dict(items) == [t |-> "dict", items |-> items]
\* an object the pickler refuses (a lambda, an open socket, a generator)
Unpicklable == [t |-> "obj"]
Item(k, v) == [k |-> k, v |-> v]

DTypes == {"uint8", "float32", "float64"}

RECURSIVE Prod(_)
Prod(shape) == IF shape = <<>> THEN 1 ELSE Head(shape) * Prod(Tail(shape))

\* an ndarray that looks into the memory of another one: element [i, j, ...]
\* is mem[offset + i * strides[1] + j * strides[2] + ...] (offsets from 0)
View(dtype, shape, strides, offset, mem) ==
    [t |-> "view", dtype |-> dtype, shape |-> shape, strides |-> strides,
     offset |-> offset, mem |-> mem]
\* isinstance(v, np.ndarray)
IsArray(v) == v.t \in {"buf", "view"}

\* the strides of a C-ordered and of a Fortran-ordered array of a shape
CStrides(shape) == [i \in 1..Len(shape) |-> Prod(SubSeq(shape, i + 1, Len(shape)))]
FStrides(shape) == [i \in 1..Len(shape) |-> Prod(SubSeq(shape, 1, i - 1))]

\* the elements of an array in row-major order
RECURSIVE Gather(_, _, _, _)
RECURSIVE GatherFrom(_, _, _, _, _)
Gather(mem, shape, strides, base) ==
    IF shape = <<>> THEN <<mem[base + 1]>>
    ELSE GatherFrom(mem, shape, strides, base, 0)
GatherFrom(mem, shape, strides, base, i) ==
    IF i >= Head(shape) THEN <<>>
    ELSE Gather(mem, Tail(shape), Tail(strides), base + i * Head(strides))
            \o GatherFrom(mem, shape, strides, base, i + 1)
Elements(v) == IF v.t = "buf" THEN v.data ELSE Gather(v.mem, v.shape, v.strides, v.offset)

\* v.flags['C_CONTIGUOUS'], v.flags['F_CONTIGUOUS']
C_CONTIGUOUS(v) == v.t = "buf" \/ v.strides = CStrides(v.shape)
F_CONTIGUOUS(v) == v.t = "view" /\ v.strides = FStrides(v.shape)
\* np.ascontiguousarray(v)
ascontiguousarray_nocopy(v) == v
ascontiguousarray(v) == IF C_CONTIGUOUS(v) THEN v ELSE Buf(v.dtype, v.shape, Elements(v))

HasKey(items, k) == \E i \in 1..Len(items) : items[i].k = k
Lookup(items, k) == items[CHOOSE i \in 1..Len(items) : items[i].k = k].v

\* d[k] = v on an insertion-ordered dict
SetItem(items, k, v) ==
    IF HasKey(items, k)
    THEN [i \in 1..Len(items) |-> IF items[i].k = k THEN Item(k, v) ELSE items[i]]
    ELSE Append(items, Item(k, v))

Take(s, n) == SubSeq(s, 1, IF Len(s) < n THEN Len(s) ELSE n)

\* decimal rendering of the one-byte operands
NumTok == [n \in 0..MaxByte |-> ToString(n)]
IsNumTok(tok) == \E n \in 0..MaxByte : NumTok[n] = tok
TokNum(tok) == CHOOSE n \in 0..MaxByte : NumTok[n] = tok

RECURSIVE NumToks(_)
NumToks(ns) == IF ns = <<>> THEN <<>> ELSE <<NumTok[Head(ns)]>> \o NumToks(Tail(ns))

\* ------------------------------------------------- binary codec (pickle)
RECURSIVE Picklable(_)
RECURSIVE AllPicklable(_)
Picklable(v) ==
    CASE v.t = "obj" -> FALSE
      [] v.t = "dict" -> AllPicklable(v.items)
      [] v.t = "buf" -> /\ v.dtype \in DTypes
                        /\ Len(v.data) = Prod(v.shape)
                        /\ \A i \in 1..Len(v.data) : v.data[i] \in 0..MaxByte
      [] v.t = "view" -> /\ v.dtype \in DTypes
                         /\ \A i \in 1..Len(v.mem) : v.mem[i] \in 0..MaxByte
      [] v.t = "num" -> v.n \in 0..MaxByte
      [] OTHER -> TRUE
AllPicklable(items) ==
    IF items = <<>> THEN TRUE
    ELSE Picklable(Head(items).v) /\ AllPicklable(Tail(items))

RECURSIVE EncVal(_)
RECURSIVE EncItems(_)
EncVal(v) ==
    CASE v.t = "str" -> <<"U", v.s>>
      [] v.t = "num" -> <<"K", NumTok[v.n]>>
      [] v.t = "none" -> <<"N">>
      [] v.t = "buf" -> <<"B", v.dtype, NumTok[Len(v.shape)]>>
                            \o NumToks(v.shape) \o NumToks(v.data)
      \* ndarray.__reduce_ex__: the memory as it lies for a Fortran-ordered
      \* array, the elements in row-major order for any other view
      [] v.t = "view" ->
            IF F_CONTIGUOUS(v) /\ ~C_CONTIGUOUS(v)
            THEN <<"F", v.dtype, NumTok[Len(v.shape)]>> \o NumToks(v.shape)
                    \o NumToks(SubSeq(v.mem, v.offset + 1, v.offset + Prod(v.shape)))
            ELSE <<"B", v.dtype, NumTok[Len(v.shape)]>>
                    \o NumToks(v.shape) \o NumToks(Elements(v))
      [] v.t = "dict" ->
            IF Len(v.items) = 0 THEN <<"}">>
            ELSE IF Len(v.items) = 1 THEN <<"}">> \o EncItems(v.items) \o <<"s">>
            ELSE <<"}", "(">> \o EncItems(v.items) \o <<"u">>
      [] OTHER -> <<>>
EncItems(items) ==
    IF items = <<>> THEN <<>>
    ELSE <<"U", Head(items).k>> \o EncVal(Head(items).v) \o EncItems(Tail(items))

dict_to_binary_reordered(data) ==
    LET rev == IF data.t = "dict"
               THEN Dict([i \in 1..Len(data.items) |-> data.items[Len(data.items) + 1 - i]])
               ELSE data
    IN IF Picklable(data)
       THEN [ok |-> TRUE, err |-> "",
             bytes |-> <<"PROTO", NumTok[HIGHEST_PROTOCOL]>> \o EncVal(rev) \o <<".">>]
       ELSE [ok |-> FALSE, err |-> "PicklingError", bytes |-> <<>>]
dict_to_binary(data) ==
    IF Picklable(data)
    THEN [ok |-> TRUE, err |-> "",
          bytes |-> <<"PROTO", NumTok[HIGHEST_PROTOCOL]>> \o EncVal(data) \o <<".">>]
    ELSE [ok |-> FALSE, err |-> "PicklingError", bytes |-> <<>>]

\* The unpickler is a stack machine over the token stream.
Mark == [t |-> "mark"]
Fail(e) == [ok |-> FALSE, err |-> e, val |-> PyNone]
Okv(v) == [ok |-> TRUE, err |-> "", val |-> v]

HasMark(stack) == \E i \in 1..Len(stack) : stack[i] = Mark
TopMark(stack) == CHOOSE i \in 1..Len(stack) :
                     /\ stack[i] = Mark
                     /\ \A j \in (i+1)..Len(stack) : stack[j] # Mark

RECURSIVE SetItems(_, _)
SetItems(items, kvs) ==
    IF kvs = <<>> THEN items
    ELSE SetItems(SetItem(items, kvs[1].s, kvs[2]), SubSeq(kvs, 3, Len(kvs)))

KeysAreStr(kvs) == \A i \in 1..Len(kvs) : (i % 2 = 1) => kvs[i].t = "str"

AllNumToks(b, from, to) == \A i \in from..to : IsNumTok(b[i])
ToksNum(b, from, to) == [i \in 1..(to - from + 1) |-> TokNum(b[from + i - 1])]

\* a module-level callable found by name (GLOBAL), an argument tuple, and
\* the record of one call made while loading (REDUCE)
Global(name) == [t |-> "global", name |-> name]
Tuple(items) == [t |-> "tuple", items |-> items]
Call(name, args) == [name |-> name, args |-> args]
\* the outcome of a load together with the calls it made
Ran(r, calls) == [ok |-> r.ok, err |-> r.err, val |-> r.val, calls |-> calls]

RECURSIVE Unpickle(_, _, _, _)
Unpickle(b, i, stack, calls) ==
    IF i > Len(b) THEN Ran(Fail("EOFError"), calls)
    ELSE LET op == b[i]
             n == Len(stack)
         IN
         CASE op = "PROTO" ->
                IF i + 1 <= Len(b) /\ IsNumTok(b[i+1]) /\ TokNum(b[i+1]) <= HIGHEST_PROTOCOL
                THEN Unpickle(b, i + 2, stack, calls)
                ELSE Ran(Fail("UnpicklingError"), calls)
           [] op = "U" ->
                IF i + 1 <= Len(b) THEN Unpickle(b, i + 2, Append(stack, Str(b[i+1])), calls)
                ELSE Ran(Fail("UnpicklingError"), calls)
           [] op = "K" ->
                IF i + 1 <= Len(b) /\ IsNumTok(b[i+1])
                THEN Unpickle(b, i + 2, Append(stack, Num(TokNum(b[i+1]))), calls)
                ELSE Ran(Fail("UnpicklingError"), calls)
           [] op = "N" -> Unpickle(b, i + 1, Append(stack, PyNone), calls)
           [] op = "}" -> Unpickle(b, i + 1, Append(stack, Dict(<<>>)), calls)
           [] op = "(" -> Unpickle(b, i + 1, Append(stack, Mark), calls)
           [] op = "B" \/ op = "F" ->
                IF /\ i + 2 <= Len(b)
                   /\ b[i+1] \in DTypes
                   /\ IsNumTok(b[i+2])
                THEN LET nd == TokNum(b[i+2]) IN
                     IF i + 2 + nd <= Len(b) /\ AllNumToks(b, i + 3, i + 2 + nd)
                     THEN LET shape == ToksNum(b, i + 3, i + 2 + nd)
                              cnt == Prod(shape)
                              d0 == i + 3 + nd
                          IN IF d0 + cnt - 1 <= Len(b) /\ AllNumToks(b, d0, d0 + cnt - 1)
                             THEN Unpickle(b, d0 + cnt,
                                    Append(stack,
                                       IF op = "B"
                                       THEN Buf(b[i+1], shape, ToksNum(b, d0, d0 + cnt - 1))
                                       ELSE View(b[i+1], shape, FStrides(shape), 0,
                                                 ToksNum(b, d0, d0 + cnt - 1))), calls)
                             ELSE Ran(Fail("UnpicklingError"), calls)
                     ELSE Ran(Fail("UnpicklingError"), calls)
                ELSE Ran(Fail("UnpicklingError"), calls)
           [] op = "s" ->
                IF n >= 3 /\ stack[n-2].t = "dict" /\ stack[n-1].t = "str"
                         /\ stack[n].t # "mark"
                THEN Unpickle(b, i + 1,
                        Append(SubSeq(stack, 1, n - 3),
                               Dict(SetItem(stack[n-2].items, stack[n-1].s, stack[n]))), calls)
                ELSE Ran(Fail("UnpicklingError"), calls)
           [] op = "u" ->
                IF HasMark(stack)
                THEN LET m == TopMark(stack)
                         kvs == SubSeq(stack, m + 1, n)
                     IN IF m >= 2 /\ stack[m-1].t = "dict" /\ Len(kvs) % 2 = 0
                                 /\ KeysAreStr(kvs)
                        THEN Unpickle(b, i + 1,
                                Append(SubSeq(stack, 1, m - 2),
                                       Dict(SetItems(stack[m-1].items, kvs))), calls)
                        ELSE Ran(Fail("UnpicklingError"), calls)
                ELSE Ran(Fail("UnpicklingError"), calls)
           [] op = "c" ->
                IF i + 1 <= Len(b) THEN Unpickle(b, i + 2, Append(stack, Global(b[i+1])), calls)
                ELSE Ran(Fail("UnpicklingError"), calls)
           [] op = "\\x85" ->
                IF n >= 1 /\ stack[n].t # "mark"
                THEN Unpickle(b, i + 1, Append(SubSeq(stack, 1, n - 1), Tuple(<<stack[n]>>)), calls)
                ELSE Ran(Fail("UnpicklingError"), calls)
           [] op = "R" ->
                IF n >= 2 /\ stack[n].t = "tuple" /\ stack[n-1].t = "global"
                THEN Unpickle(b, i + 1, Append(SubSeq(stack, 1, n - 2), Num(0)),
                              Append(calls, Call(stack[n-1].name, stack[n].items)))
                ELSE Ran(Fail("TypeError"), calls)
           [] op = "." ->
                IF n >= 1 /\ stack[n].t # "mark" THEN Ran(Okv(stack[n]), calls)
                ELSE Ran(Fail("UnpicklingError"), calls)
           [] OTHER -> Ran(Fail("UnpicklingError"), calls)

pickle_loads(data) == Unpickle(data, 1, <<>>, <<>>)
binary_to_dict(data) ==
    LET r == pickle_loads(data) IN [ok |-> r.ok, err |-> r.err, val |-> r.val]

\* ------------------------------------- transport client (request_tools.py)
VARIABLES
    c_pc,            \* position in send_inference_request
    c_args,          \* the arguments of the call
    req_body,        \* the serialized request
    attempt,         \* the loop variable of the retry loop
    last_exception,  \* the last recorded error
    c_result,        \* the value returned to the caller
    c_raised,        \* the exception raised to the caller
    c_log            \* the POSTs and sleeps performed, in order

\* one use of a codec: a payload is encoded, then decoded
VARIABLES
    k_pc,            \* "idle", "input", "wire" or "done"
    k_path,          \* which codec is applied
    k_flag,          \* the `compressed` argument
    k_x,             \* the payload handed to the encoder
    k_wire,          \* what the encoder produced
    k_out            \* what the decoder returned

kvars == <<k_pc, k_path, k_flag, k_x, k_wire, k_out>>
\* what a server step leaves alone
cvars == <<c_pc, c_args, req_body, attempt, last_exception, c_result, c_raised, c_log, kvars>>

VARIABLES
    model,           \* server.py: the process-wide model reference
    device,          \* server.py: the process-wide device
    smolvla_policy,  \* Flask_Demo1: the process-wide policy
    demo_device,     \* Flask_Demo1: the process-wide device
    listening,       \* per server: the listener is running
    loads,           \* number of models loaded so far (identity of handles)
    reqs,            \* the /infer requests: position and locals of each
    upds,            \* the /update_model requests: position and locals of each
    disk             \* the files and directories created so far

\* what a client step leaves alone
svars == <<model, device, smolvla_policy, demo_device, listening, loads, reqs, upds, disk, kvars>>
vars == <<cvars, svars>>

NoExc == [type |-> "None"]
NoResult == [t |-> "unset"]
NoArgs == [data |-> PyNone, url |-> "", timeout |-> 0, max_retries |-> 0, retry_delay |-> 0]

DefaultUrl == "http://127.0.0.1:50000/infer"
RequestHeaders == [ContentType |-> "application/octet-stream"]

\* payloads a caller passes
ObsPayload == Dict(<<Item("instruction", Str("pick up the red cup")),
                     Item("state", Buf("float32", <<2>>, <<1, 2>>))>>)
TextPayload == Dict(<<Item("test", Str("data"))>>)
BadPayload == Dict(<<Item("callback", Unpicklable)>>)
ClientPayloads == {ObsPayload, TextPayload, BadPayload}

\* what an endpoint may answer
OkReply == Dict(<<Item("status", Str("ok")), Item("output", Buf("float32", <<2>>, <<7, 9>>))>>)
ErrReply == Dict(<<Item("status", Str("error")), Item("message", Str("boom"))>>)
OkBody == dict_to_binary(OkReply).bytes
ErrBody == dict_to_binary(ErrReply).bytes
TruncBody == Take(OkBody, Len(OkBody) - 2)
ReplyBodies == {OkBody, ErrBody, TruncBody}
ReplyStatuses == {200, 500}

\* binary_to_dict on a response body; the decodings of the bodies a server
\* may send are worked out once
ReplyDecodings == [b \in ReplyBodies |-> binary_to_dict(b)]
reply_to_dict(content) ==
    IF content \in ReplyBodies THEN ReplyDecodings[content] ELSE binary_to_dict(content)

Response(status, content) == [kind |-> "resp", status |-> status, content |-> content]
NoResponse(kind) == [kind |-> kind, status |-> 0, content |-> <<>>]
PostOutcomes ==
    {Response(st, body) : st \in ReplyStatuses, body \in ReplyBodies}
        \cup {NoResponse("timeout"), NoResponse("connerr"), NoResponse("reqexc")}

\* range(max_retries + 1)
AttemptLimitOffByOne(max_retries) == max_retries
AttemptLimitAtLeastOnce(max_retries) == IF max_retries < 0 THEN 1 ELSE max_retries + 1
AttemptLimit(max_retries) == max_retries + 1

\* if attempt < max_retries: time.sleep(retry_delay)
SleepsAfterEveryFailure(att, max_retries) == TRUE
SleepsAfter(att, max_retries) == att < max_retries

Exc(type, att, status, src, msg, text) ==
    [type |-> type, attempt |-> att, status |-> status, src |-> src, msg |-> msg, text |-> text]

\* error_msg of a non-200 response
ServerError(att, status, content) ==
    LET d == reply_to_dict(content) IN
    IF d.ok /\ d.val.t = "dict" /\ HasKey(d.val.items, "message")
    THEN Exc("RuntimeError", att, status, "message", Lookup(d.val.items, "message"), <<>>)
    ELSE Exc("RuntimeError", att, status, "text", PyNone, Take(content, TextPrefixLen))

\* outcome of one attempt: a value returned, an exception raised inside the
\* try (thrown), or an error recorded without a raise
Returned(v) == [ret |-> TRUE, val |-> v, exc |-> NoExc, thrown |-> FALSE]
Raised(e) == [ret |-> FALSE, val |-> NoResult, exc |-> e, thrown |-> TRUE]
Recorded(e) == [ret |-> FALSE, val |-> NoResult, exc |-> e, thrown |-> FALSE]

\* return result_dict
SuccessKeepsLooping(val) == Recorded(NoExc)
SuccessDegraded(val) == Returned(IF val.t = "dict" THEN Dict(Take(val.items, 1)) ELSE PyNone)
Success(val) == Returned(val)

\* the except clauses of the loop body; except Exception matches every type
ExceptClauses == {"Timeout", "ConnectionError", "RequestException", "Exception"}
CaughtWithoutCatchAll(type) == type \in ExceptClauses \ {"Exception"}
Caught(type) == type \in ExceptClauses \/ "Exception" \in ExceptClauses

\* the body of the try statement and its except clauses, for one attempt
Classify(outcome, att) ==
    CASE outcome.kind = "resp" ->
            IF outcome.status = 200
            THEN LET d == reply_to_dict(outcome.content) IN
                 IF d.ok THEN Success(d.val)
                 ELSE Raised(Exc("RuntimeError", att, 200, "deserialize", Str(d.err), <<>>))
            ELSE Recorded(ServerError(att, outcome.status, outcome.content))
      [] outcome.kind = "timeout" -> Raised(Exc("Timeout", att, 0, "", PyNone, <<>>))
      [] outcome.kind = "connerr" -> Raised(Exc("ConnectionError", att, 0, "", PyNone, <<>>))
      [] OTHER -> Raised(Exc("RequestException", att, 0, "", PyNone, <<>>))

\* last_exception = e
RecordErrorKeepsFirst(prev, exc) == IF prev = NoExc THEN exc ELSE prev
RecordError(prev, exc) == exc

SerializeError(cause) ==
    [type |-> "RuntimeError", kind |-> "serialize", cause |-> cause, attempts |-> 0, last |-> NoExc]
\* an exception no except clause matches leaves the function
PropagatedError(exc) ==
    [type |-> exc.type, kind |-> "propagated", cause |-> "", attempts |-> 0, last |-> exc]
ExhaustedError(max_retries, last) ==
    [type |-> "RuntimeError", kind |-> "exhausted", cause |-> "", attempts |-> max_retries + 1,
     last |-> last]

\* where the call goes after the try around dict_to_binary
AfterSerializeSwallowed(r) == "loop"
AfterSerialize(r) == IF r.ok THEN "loop" ELSE "raised"

\* requests.post(..., timeout=timeout): the one number is the limit of the
\* connect and, separately, of every wait for data.  A Timeout outcome is a
\* read timeout after a connect that finished one second inside its limit;
\* the other outcomes arrive at once.
Took(outcome, timeout) ==
    IF outcome.kind = "timeout" THEN (timeout - 1) + timeout ELSE 0

\* a POST whose timeout grows with the attempt
PostEventBackoff(att, outcome) ==
    [ev |-> "post", attempt |-> att, url |-> c_args.url, body |-> req_body,
     headers |-> RequestHeaders, timeout |-> c_args.timeout + att, outcome |-> outcome,
     took |-> Took(outcome, c_args.timeout)]
PostEvent(att, outcome) ==
    [ev |-> "post", attempt |-> att, url |-> c_args.url, body |-> req_body,
     headers |-> RequestHeaders, timeout |-> c_args.timeout, outcome |-> outcome,
     took |-> Took(outcome, c_args.timeout)]
SleepEvent(att) ==
    [ev |-> "sleep", attempt |-> att, url |-> "", body |-> <<>>,
     headers |-> RequestHeaders, timeout |-> c_args.retry_delay, outcome |-> NoResponse("none"),
     took |-> c_args.retry_delay]

ClientInit ==
    /\ c_pc = "idle"
    /\ c_args = NoArgs
    /\ req_body = <<>>
    /\ attempt = 0
    /\ last_exception = NoExc
    /\ c_result = NoResult
    /\ c_raised = NoExc
    /\ c_log = <<>>

\* the call, up to the entry of the retry loop
send_inference_request(data, max_retries) ==
    /\ c_pc = "idle"
    /\ c_args' = [data |-> data, url |-> DefaultUrl, timeout |-> DefaultTimeout,
                  max_retries |-> max_retries, retry_delay |-> 1]
    /\ LET r == dict_to_binary(data) IN
         /\ c_pc' = AfterSerialize(r)
         /\ req_body' = r.bytes
         /\ c_raised' = IF AfterSerialize(r) = "raised" THEN SerializeError(r.err) ELSE NoExc
    /\ attempt' = 0
    /\ last_exception' = NoExc
    /\ UNCHANGED <<c_result, c_log>>
    /\ UNCHANGED svars

\* one iteration of the loop: the POST and the handling of its outcome
Post(outcome) ==
    /\ c_pc = "loop"
    /\ attempt < AttemptLimit(c_args.max_retries)
    /\ c_log' = Append(c_log, PostEvent(attempt, outcome))
    /\ LET c == Classify(outcome, attempt) IN
         IF c.ret
         THEN /\ c_pc' = "returned"
              /\ c_result' = c.val
              /\ UNCHANGED <<attempt, last_exception, c_raised>>
         ELSE IF c.thrown /\ ~Caught(c.exc.type)
         THEN /\ c_pc' = "raised"
              /\ c_raised' = PropagatedError(c.exc)
              /\ UNCHANGED <<attempt, last_exception, c_result>>
         ELSE /\ last_exception' = RecordError(last_exception, c.exc)
              /\ IF SleepsAfter(attempt, c_args.max_retries)
                 THEN c_pc' = "sleep" /\ UNCHANGED attempt
                 ELSE c_pc' = "loop" /\ attempt' = attempt + 1
              /\ UNCHANGED <<c_result, c_raised>>
    /\ UNCHANGED <<c_args, req_body>>
    /\ UNCHANGED svars

\* a sleep that starts the same iteration again
SleepWithoutAdvance ==
    /\ c_pc = "sleep"
    /\ c_log' = Append(c_log, SleepEvent(attempt))
    /\ attempt' = attempt
    /\ c_pc' = "loop"
    /\ UNCHANGED <<c_args, req_body, last_exception, c_result, c_raised>>
    /\ UNCHANGED svars

\* time.sleep(retry_delay), then the next iteration
Sleep ==
    /\ c_pc = "sleep"
    /\ c_log' = Append(c_log, SleepEvent(attempt))
    /\ attempt' = attempt + 1
    /\ c_pc' = "loop"
    /\ UNCHANGED <<c_args, req_body, last_exception, c_result, c_raised>>
    /\ UNCHANGED svars

\* the raise after the loop
RaiseExhausted ==
    /\ c_pc = "loop"
    /\ ~(attempt < AttemptLimit(c_args.max_retries))
    /\ c_raised' = ExhaustedError(c_args.max_retries, last_exception)
    /\ c_pc' = "raised"
    /\ UNCHANGED <<c_args, req_body, attempt, last_exception, c_result, c_log>>
    /\ UNCHANGED svars

\* ------------------------------- textual codec (Flask_Demo1/base64_tools.py)
\* a str holding the base64 text of the bytes raw
B64Str(raw) == [t |-> "str", s |-> "<base64>", b64 |-> raw]
IsB64(v) == v.t = "str" /\ "b64" \in DOMAIN v
Tensor(dtype, shape, data, dev) ==
    [t |-> "tensor", dtype |-> dtype, shape |-> shape, data |-> data, dev |-> dev]

NUMPY_MARKER == "base64numpy_"
TORCH_MARKER == "base64torch_"
StartsWith(k, prefix) == Len(k) >= Len(prefix) /\ SubSeq(k, 1, Len(prefix)) = prefix
\* k[12:]
StripMarker(k) == SubSeq(k, 13, Len(k))

\* np.save(buffer, arr, allow_pickle=False)
NpySave(arr) ==
    <<"NUMPY", arr.dtype, NumTok[Len(arr.shape)]>> \o NumToks(arr.shape) \o NumToks(arr.data)

\* np.load(buffer, allow_pickle=False)
NpyLoad(b) ==
    IF Len(b) >= 3 /\ b[1] = "NUMPY" /\ b[2] \in DTypes /\ IsNumTok(b[3])
    THEN LET nd == TokNum(b[3]) IN
         IF 3 + nd <= Len(b) /\ AllNumToks(b, 4, 3 + nd)
         THEN LET shape == ToksNum(b, 4, 3 + nd)
                  cnt == Prod(shape)
              IN IF Len(b) >= 3 + nd + cnt /\ AllNumToks(b, 4 + nd, 3 + nd + cnt)
                 THEN Okv(Buf(b[2], shape, ToksNum(b, 4 + nd, 3 + nd + cnt)))
                 ELSE Fail("ValueError")
         ELSE Fail("ValueError")
    ELSE Fail("ValueError")

serialize_np(arr) == B64Str(NpySave(arr))

deserialize_np(v) ==
    IF v.t # "str" THEN Fail("AttributeError")
    ELSE IF ~IsB64(v) THEN Fail("binascii.Error")
    ELSE NpyLoad(v.b64)

RECURSIVE SerializeItems(_, _)
SerializeItems(items, acc) ==
    IF items = <<>> THEN acc
    ELSE LET k == Head(items).k
             v == Head(items).v
         IN SerializeItems(Tail(items),
              CASE v.t = "buf" -> SetItem(acc, NUMPY_MARKER \o k, serialize_np(v))
                [] v.t = "tensor" ->
                     SetItem(acc, TORCH_MARKER \o k, serialize_np(Buf(v.dtype, v.shape, v.data)))
                [] OTHER -> SetItem(acc, k, v))

serialize_dict(d) ==
    IF d.t # "dict" THEN Fail("AttributeError")
    ELSE Okv(Dict(SerializeItems(d.items, <<>>)))

RECURSIVE DeserializeItems(_, _, _)
DeserializeItems(items, dev, acc) ==
    IF items = <<>> THEN Okv(Dict(acc))
    ELSE LET k == Head(items).k
             v == Head(items).v
         IN IF StartsWith(k, NUMPY_MARKER)
            THEN LET a == deserialize_np(v) IN
                 IF a.ok THEN DeserializeItems(Tail(items), dev, SetItem(acc, StripMarker(k), a.val))
                 ELSE a
            ELSE IF StartsWith(k, TORCH_MARKER)
            THEN LET a == deserialize_np(v) IN
                 IF a.ok
                 THEN DeserializeItems(Tail(items), dev,
                        SetItem(acc, StripMarker(k),
                                Tensor(a.val.dtype, a.val.shape, a.val.data, dev)))
                 ELSE a
            ELSE DeserializeItems(Tail(items), dev, SetItem(acc, k, v))

deserialize_dict(d, dev) ==
    IF d.t # "dict" THEN Fail("AttributeError")
    ELSE DeserializeItems(d.items, dev, <<>>)

\* json.dumps(...).encode('utf-8')
RECURSIVE JsonOk(_)
RECURSIVE JsonItemsOk(_)
JsonOk(v) ==
    CASE v.t \in {"str", "num", "none"} -> TRUE
      [] v.t = "dict" -> JsonItemsOk(v.items)
      [] OTHER -> FALSE
JsonItemsOk(items) ==
    IF items = <<>> THEN TRUE ELSE JsonOk(Head(items).v) /\ JsonItemsOk(Tail(items))

RECURSIVE JsonVal(_)
RECURSIVE JsonItems(_)
JsonVal(v) ==
    CASE v.t = "str" -> IF IsB64(v) THEN <<"S64">> \o v.b64 \o <<"\"">> ELSE <<"S", v.s>>
      [] v.t = "num" -> <<"I", NumTok[v.n]>>
      [] v.t = "none" -> <<"null">>
      [] v.t = "dict" -> <<"{">> \o JsonItems(v.items) \o <<"}">>
      [] OTHER -> <<>>
JsonItems(items) ==
    IF items = <<>> THEN <<>>
    ELSE <<"S", Head(items).k>> \o JsonVal(Head(items).v) \o JsonItems(Tail(items))

json_dumps(v) ==
    IF JsonOk(v) THEN [ok |-> TRUE, err |-> "", bytes |-> JsonVal(v)]
    ELSE [ok |-> FALSE, err |-> "TypeError", bytes |-> <<>>]

\* json.loads(raw_data.decode('utf-8')): recursive descent; next is the
\* position after the parsed value
JFail == [ok |-> FALSE, err |-> "JSONDecodeError", val |-> PyNone, next |-> 0]
JOk(v, n) == [ok |-> TRUE, err |-> "", val |-> v, next |-> n]

QuotePos(b, i) == CHOOSE j \in i..Len(b) : b[j] = "\"" /\ \A m \in i..(j-1) : b[m] # "\""

RECURSIVE JsonParse(_, _)
RECURSIVE JsonParseItems(_, _, _)
JsonParse(b, i) ==
    IF i > Len(b) THEN JFail
    ELSE CASE b[i] = "S" -> IF i + 1 <= Len(b) THEN JOk(Str(b[i+1]), i + 2) ELSE JFail
           [] b[i] = "S64" ->
                IF \E j \in (i+1)..Len(b) : b[j] = "\""
                THEN JOk(B64Str(SubSeq(b, i + 1, QuotePos(b, i + 1) - 1)), QuotePos(b, i + 1) + 1)
                ELSE JFail
           [] b[i] = "I" ->
                IF i + 1 <= Len(b) /\ IsNumTok(b[i+1]) THEN JOk(Num(TokNum(b[i+1])), i + 2)
                ELSE JFail
           [] b[i] = "null" -> JOk(PyNone, i + 1)
           [] b[i] = "{" -> JsonParseItems(b, i + 1, <<>>)
           [] OTHER -> JFail
JsonParseItems(b, i, acc) ==
    IF i > Len(b) THEN JFail
    ELSE IF b[i] = "}" THEN JOk(Dict(acc), i + 1)
    ELSE IF b[i] = "S" /\ i + 1 <= Len(b)
    THEN LET v == JsonParse(b, i + 2) IN
         IF v.ok THEN JsonParseItems(b, v.next, SetItem(acc, b[i+1], v.val)) ELSE JFail
    ELSE JFail

json_loads(b) ==
    LET r == JsonParse(b, 1) IN
    IF r.ok /\ r.next = Len(b) + 1 THEN Okv(r.val) ELSE Fail("JSONDecodeError")

\* gzip: a magic number, the deflated stream (run-length coding of the
\* tokens), and the length of the input as trailer
GZIP_MAGIC == "\\x1f\\x8b"

RECURSIVE RunLen(_, _)
RunLen(b, tok) == IF b # <<>> /\ Head(b) = tok THEN 1 + RunLen(Tail(b), tok) ELSE 0

RECURSIVE Deflate(_)
Deflate(b) ==
    IF b = <<>> THEN <<>>
    ELSE LET n == RunLen(b, Head(b)) IN
         <<NumTok[n], Head(b)>> \o Deflate(SubSeq(b, n + 1, Len(b)))

RECURSIVE Inflate(_)
Inflate(z) ==
    IF z = <<>> THEN [ok |-> TRUE, bytes |-> <<>>]
    ELSE IF Len(z) >= 2 /\ IsNumTok(z[1]) /\ TokNum(z[1]) >= 1
    THEN LET rest == Inflate(SubSeq(z, 3, Len(z))) IN
         IF rest.ok
         THEN [ok |-> TRUE, bytes |-> [i \in 1..TokNum(z[1]) |-> z[2]] \o rest.bytes]
         ELSE rest
    ELSE [ok |-> FALSE, bytes |-> <<>>]

gzip_compress_stored(b) == <<GZIP_MAGIC>> \o b \o <<NumTok[Len(b) % (MaxByte + 1)]>>
gzip_compress(b) == <<GZIP_MAGIC>> \o Deflate(b) \o <<NumTok[Len(b) % (MaxByte + 1)]>>

gzip_decompress(z) ==
    IF Len(z) >= 2 /\ z[1] = GZIP_MAGIC
    THEN LET r == Inflate(SubSeq(z, 2, Len(z) - 1)) IN
         IF r.ok /\ z[Len(z)] = NumTok[Len(r.bytes) % (MaxByte + 1)]
         THEN [ok |-> TRUE, err |-> "", bytes |-> r.bytes]
         ELSE [ok |-> FALSE, err |-> "BadGzipFile", bytes |-> <<>>]
    ELSE [ok |-> FALSE, err |-> "BadGzipFile", bytes |-> <<>>]

\* ------------------------------------------------- claims on the client
IsPost(e) == e.ev = "post"
IsSleep(e) == e.ev = "sleep"
PostIdx == {i \in 1..Len(c_log) : IsPost(c_log[i])}
Posts == Cardinality(PostIdx)
Sleeps == Cardinality({i \in 1..Len(c_log) : IsSleep(c_log[i])})
Finished == c_pc \in {"returned", "raised"}

\* an attempt fails unless it got HTTP 200 with a decodable body
FailedOutcome(o) == o.kind # "resp" \/ o.status # 200 \/ ~reply_to_dict(o.content).ok
FailureKind(o) ==
    CASE o.kind = "resp" /\ o.status # 200 -> "non200"
      [] o.kind = "resp" -> "undecodable"
      [] OTHER -> o.kind
ErrorTypeOf(o) ==
    CASE o.kind = "timeout" -> "Timeout"
      [] o.kind = "connerr" -> "ConnectionError"
      [] o.kind = "reqexc" -> "RequestException"
      [] OTHER -> "RuntimeError"
AllAttemptsFailed == \A i \in PostIdx : FailedOutcome(c_log[i].outcome)
LastPost == c_log[CHOOSE i \in PostIdx : \A j \in PostIdx : j <= i]

\* C1: with max_retries = N >= 0 and a serializable payload, a call whose
\* every attempt failed ends by raising the exhaustion RuntimeError after
\* exactly N+1 POSTs (1 POST when N = 0); no call ever issues more than N+1.
C1_RetryBound ==
    /\ (c_pc # "idle" /\ c_args.max_retries >= 0) => Posts <= c_args.max_retries + 1
    /\ (Finished /\ c_args.max_retries >= 0 /\ Picklable(c_args.data) /\ AllAttemptsFailed)
          => /\ c_pc = "raised"
             /\ c_raised.type = "RuntimeError"
             /\ c_raised.kind = "exhausted"
             /\ Posts = c_args.max_retries + 1

C1_Witness ==
    /\ c_pc = "raised"
    /\ c_raised.kind = "exhausted"
    /\ c_args.max_retries = 2
    /\ Posts = 3
    /\ {FailureKind(c_log[i].outcome) : i \in PostIdx} = {"timeout", "non200", "undecodable"}

\* C2: when the payload cannot be serialized the call raises at once: no
\* POST, no sleep, no retry, whatever max_retries is.
C2_SerializeFailsFast ==
    (c_pc # "idle" /\ ~Picklable(c_args.data))
        => /\ c_pc = "raised"
           /\ c_raised.type = "RuntimeError"
           /\ c_raised.kind = "serialize"
           /\ c_log = <<>>
           /\ attempt = 0

C2_Witness ==
    /\ c_pc = "raised"
    /\ c_raised.kind = "serialize"
    /\ c_args.data = BadPayload
    /\ c_args.max_retries >= 2

\* C3: an attempt answered 200 with a decodable body is the last event of
\* the call: the call has returned the payload decoded from that response
\* and no POST or sleep follows it.
C3_FirstSuccessEnds ==
    \A i \in PostIdx :
        ~FailedOutcome(c_log[i].outcome)
            => /\ i = Len(c_log)
               /\ c_pc = "returned"
               /\ c_result = reply_to_dict(c_log[i].outcome.content).val

C3_Witness ==
    /\ c_pc = "returned"
    /\ Posts = 2
    /\ c_args.max_retries >= 3
    /\ c_result = OkReply

\* C4: every failure outcome (non-200, connection failure, timeout,
\* undecodable 200) is recorded as the last error and does not end the loop:
\* unless it was the final attempt the next attempt follows, and the only
\* raise after a POST is the exhaustion raise after attempt max_retries.
C4_FailuresRetryable ==
    /\ \A i \in PostIdx :
          FailedOutcome(c_log[i].outcome) =>
             /\ (i = Len(c_log) /\ c_pc # "raised")
                   => /\ last_exception.attempt = c_log[i].attempt
                      /\ last_exception.type = ErrorTypeOf(c_log[i].outcome)
                      /\ c_pc \in {"sleep", "loop"}
             /\ (Finished /\ c_log[i].attempt < c_args.max_retries)
                   => \E j \in PostIdx : j > i /\ c_log[j].attempt = c_log[i].attempt + 1
    /\ (c_pc = "raised" /\ Posts > 0)
          => /\ c_raised.kind = "exhausted"
             /\ LastPost.attempt = c_args.max_retries

C4_Witness ==
    /\ Finished
    /\ \A k \in {"timeout", "connerr", "non200", "undecodable"} :
          \E i \in PostIdx :
             /\ FailureKind(c_log[i].outcome) = k
             /\ \E j \in PostIdx : j > i /\ c_log[j].attempt = c_log[i].attempt + 1

\* C5: the exhaustion error carries the error recorded by the final attempt
\* (attempt index max_retries), whatever the kinds of the failures were.
C5_CarriesLastError ==
    (c_pc = "raised" /\ c_raised.kind = "exhausted" /\ c_args.max_retries >= 0)
        => /\ c_raised.last.attempt = c_args.max_retries
           /\ c_raised.last.attempt = LastPost.attempt
           /\ c_raised.last.type = ErrorTypeOf(LastPost.outcome)
           /\ c_raised.last.status = LastPost.outcome.status

C5_Witness ==
    /\ c_pc = "raised"
    /\ c_raised.kind = "exhausted"
    /\ c_args.max_retries >= 1
    /\ c_log[1].outcome.kind = "timeout"
    /\ LastPost.outcome.kind = "resp"
    /\ c_raised.last.status = 500

\* C6: a value is returned only as the decoded body of a 200 response of
\* one of the call's own attempts; a call that did not return has no result.
C6_NoPartialResult ==
    /\ c_pc = "returned"
          => \E i \in PostIdx :
                /\ c_log[i].outcome.kind = "resp"
                /\ c_log[i].outcome.status = 200
                /\ reply_to_dict(c_log[i].outcome.content).ok
                /\ c_result = reply_to_dict(c_log[i].outcome.content).val
    /\ c_pc # "returned" => c_result = NoResult
    /\ (c_pc = "raised") => c_raised # NoExc

C6_Witness ==
    /\ c_pc = "returned"
    /\ c_result = ErrReply
    /\ Posts >= 2
    /\ \E i \in PostIdx : FailureKind(c_log[i].outcome) = "non200"

\* --------------------------------------------------------- the two servers
Servers == {"binary", "demo"}
Reqs == 1..NumReqs

\* app.run(..., threaded=False, ...)
threadedListener(srv) == TRUE
threadedBinary(srv) == srv = "binary"
threaded(srv) == FALSE

NoModel == [id |-> 0, path |-> "", dev |-> "None"]
Handle(id, path, dev) == [id |-> id, path |-> path, dev |-> dev]
Devices == {"cpu", "cuda:0"}

\* load_model(model_path, device): a fresh model object on every call
load_model(model_path, dev, id) == Handle(id, model_path, dev)

NoResp == [status |-> 0, body |-> <<>>, compressed |-> ""]
HttpResponse(status, body, compressed) ==
    [status |-> status, body |-> body, compressed |-> compressed]
\* what Flask answers when the view function itself raises
FlaskInternalError == HttpResponse(500, <<"<!doctype html>">>, "")

\* the exception model_inference raised in a request: str(e) and the traceback
NoRaise == [msg |-> "", trace |-> ""]
NewReq ==
    [srv |-> "none", stage |-> "NEW", hdr |-> "", body |-> <<>>, data |-> PyNone,
     obs |-> PyNone, output |-> PyNone, blob |-> <<>>, handle |-> NoModel,
     had_model |-> FALSE, m_submit |-> NoModel, m_accept |-> NoModel, m_check |-> NoModel, after |-> {}, ran |-> <<>>, ninvoke |-> 0, raised |-> NoRaise, resp |-> NoResp, nresp |-> 0, path |-> <<>>]

InHandler(r) == reqs[r].stage \in {"RECEIVED", "DECODED", "PREPARED", "INFERRED", "ENCODED"}
Upds == 1..NumUpds
UInHandler(u) == upds[u].stage \in {"RECEIVED", "VALIDATED", "EXTRACTED"}
\* the single-threaded listener of a server is inside a view function
Busy(srv) ==
    \/ \E q \in Reqs : reqs[q].srv = srv /\ InHandler(q)
    \/ srv = "binary" /\ \E u \in Upds : UInHandler(u)
Answered(r) == reqs[r].stage \in {"RESPONDED", "FAILED"}

Goto(q, stage) == [q EXCEPT !.stage = stage, !.path = Append(@, stage)]
\* the single response write of a request
Reply(q, stage, resp) ==
    [Goto(q, stage) EXCEPT !.resp = resp, !.nresp = @ + 1]

\* requests a client may send to server.py
ObsBody == dict_to_binary(ObsPayload).bytes
\* bytes written by hand, not by dict_to_binary: GLOBAL os.system, a string,
\* TUPLE1, REDUCE, and no STOP
CraftedBody == <<"PROTO", NumTok[HIGHEST_PROTOCOL], "c", "os.system",
                 "U", "touch /tmp/owned", "\\x85", "R">>
BinaryRequests ==
    { [hdr |-> "", body |-> ObsBody],
      [hdr |-> "", body |-> Take(ObsBody, Len(ObsBody) - 2)],
      [hdr |-> "", body |-> dict_to_binary(Str("ping")).bytes],
      [hdr |-> "", body |-> CraftedBody] }

\* requests a client may send to the base64/JSON server
ObsJson == json_dumps(serialize_dict(ObsPayload).val).bytes
DemoRequests ==
    { [hdr |-> "raw", body |-> ObsJson],
      [hdr |-> "gzip", body |-> gzip_compress(ObsJson)],
      [hdr |-> "gzip", body |-> ObsJson],
      [hdr |-> "", body |-> Take(ObsJson, Len(ObsJson) - 1)] }

RequestsFor(srv) == IF srv = "binary" THEN BinaryRequests ELSE DemoRequests

\* what the model collaborator may do with a prepared observation
Action1 == Buf("float32", <<2>>, <<7, 9>>)
Action2 == Buf("float32", <<2>>, <<3, 4>>)
InferOutcomes ==
    { [raises |-> FALSE, msg |-> "", trace |-> "", out |-> Action1],
      [raises |-> FALSE, msg |-> "", trace |-> "", out |-> Action2],
      [raises |-> FALSE, msg |-> "", trace |-> "", out |-> Unpicklable],
      [raises |-> TRUE, msg |-> "CUDA out of memory",
       trace |-> "Traceback (most recent call last): File server.py, in model_inference",
       out |-> PyNone] }

\* server.py main(): load the model, then run the listener
main(model_path, dev) ==
    /\ ~listening["binary"]
    /\ device' = dev
    /\ model' = load_model(model_path, dev, loads + 1)
    /\ loads' = loads + 1
    /\ listening' = [listening EXCEPT !["binary"] = TRUE]
    /\ UNCHANGED <<smolvla_policy, demo_device, reqs>>
    /\ UNCHANGED <<upds, disk>>
    /\ UNCHANGED cvars

\* Flask_Demo1 main()
demo_main(model_path, dev) ==
    /\ ~listening["demo"]
    /\ demo_device' = dev
    /\ smolvla_policy' = Handle(loads + 1, model_path, dev)
    /\ loads' = loads + 1
    /\ listening' = [listening EXCEPT !["demo"] = TRUE]
    /\ UNCHANGED <<model, device, reqs>>
    /\ UNCHANGED <<upds, disk>>
    /\ UNCHANGED cvars

\* the module-level app served by a WSGI host: main() never ran
serve_app(srv) ==
    /\ ~listening[srv]
    /\ listening' = [listening EXCEPT ![srv] = TRUE]
    /\ UNCHANGED <<model, device, smolvla_policy, demo_device, loads, reqs>>
    /\ UNCHANGED <<upds, disk>>
    /\ UNCHANGED cvars

\* the model reference of a server process
ModelOf(srv) == IF srv = "binary" THEN model ELSE smolvla_policy

\* a client sends a request; it waits in the listener's backlog
Submit(r, srv, rq) ==
    /\ reqs[r].stage = "NEW"
    /\ \A q \in Reqs : q < r => reqs[q].stage # "NEW"
    /\ listening[srv]
    /\ reqs' = [reqs EXCEPT ![r] = [Goto(@, "QUEUED") EXCEPT !.srv = srv, !.hdr = rq.hdr,
                                                              !.body = rq.body,
                                                              !.m_submit = ModelOf(srv)]]
    /\ UNCHANGED <<model, device, smolvla_policy, demo_device, listening, loads>>
    /\ UNCHANGED <<upds, disk>>
    /\ UNCHANGED cvars

\* the listener takes the oldest waiting request and enters infer()
Accept(r) ==
    /\ reqs[r].stage = "QUEUED"
    /\ \A q \in Reqs : (q < r /\ reqs[q].srv = reqs[r].srv) => reqs[q].stage # "QUEUED"
    /\ threaded(reqs[r].srv) \/ ~Busy(reqs[r].srv)
    /\ reqs' = [reqs EXCEPT ![r] =
          [Goto(@, "RECEIVED") EXCEPT !.had_model = ModelOf(reqs[r].srv) # NoModel,
                                      !.m_accept = ModelOf(reqs[r].srv),
                                      !.after = {u \in Upds : upds[u].stage = "ANSWERED"}]]
    /\ UNCHANGED <<model, device, smolvla_policy, demo_device, listening, loads>>
    /\ UNCHANGED <<upds, disk>>
    /\ UNCHANGED cvars

\* ---- server.py infer()
NotReadyPayload == Dict(<<Item("status", Str("error")), Item("message", Str("Service not ready"))>>)
ErrorPayloadGeneric(msg) == Dict(<<Item("status", Str("error")), Item("message", Str("error"))>>)
ErrorPayload(msg) == Dict(<<Item("status", Str("error")), Item("message", Str(msg))>>)
OkPayloadWithoutOutput(output) == Dict(<<Item("status", Str("ok"))>>)
OkPayload(output) == Dict(<<Item("status", Str("ok")), Item("output", output)>>)

\* Response(dict_to_binary(payload), status=..., mimetype='application/octet-stream')
BinaryResponse(payload, status) ==
    LET b == dict_to_binary(payload) IN
    IF b.ok THEN HttpResponse(status, b.bytes, "") ELSE FlaskInternalError

NotReadyStatus == 503
ErrorStatus == 500
OkStatus == 200

\* the except clause of infer()
InferFailedSilently(q, msg) == Goto(q, "FAILED")
InferFailed(q, msg) == Reply(q, "FAILED", BinaryResponse(ErrorPayload(msg), ErrorStatus))

\* the readiness check and step 1, deserialize
ReadyCheck(m) == m # NoModel

Decode(r) ==
    /\ reqs[r].srv = "binary"
    /\ reqs[r].stage = "RECEIVED"
    /\ LET q == reqs[r] IN reqs' = [reqs EXCEPT ![r] =
          IF ~ReadyCheck(model)
          THEN Reply(q, "FAILED", BinaryResponse(NotReadyPayload, NotReadyStatus))
          ELSE LET d == binary_to_dict(q.body)
                   w == [q EXCEPT !.ran = pickle_loads(q.body).calls, !.m_check = model]
               IN IF d.ok THEN [Goto(w, "DECODED") EXCEPT !.data = d.val]
                  ELSE InferFailed(w, d.err)]
    /\ UNCHANGED <<model, device, smolvla_policy, demo_device, listening, loads>>
    /\ UNCHANGED <<upds, disk>>
    /\ UNCHANGED cvars

\* obs[k] = torch.from_numpy(v).to(device) for arrays, obs[k] = v otherwise
\* torch.from_numpy(v).to(device): the tensor shares the layout of the array
from_numpy(v, dev) ==
    IF C_CONTIGUOUS(v) THEN Tensor(v.dtype, v.shape, Elements(v), dev)
    ELSE [t |-> "tensor", dtype |-> v.dtype, shape |-> v.shape, data |-> Elements(v),
          dev |-> dev, strides |-> v.strides]
PrepareItems(items, dev) ==
    [i \in 1..Len(items) |->
        IF IsArray(items[i].v)
        THEN LET v == IF ~C_CONTIGUOUS(items[i].v) THEN ascontiguousarray(items[i].v)
                      ELSE items[i].v
             IN Item(items[i].k, from_numpy(v, dev))
        ELSE items[i]]

HasBuffer(d) == d.t = "dict" /\ \E i \in 1..Len(d.items) : IsArray(d.items[i].v)

\* step 2 moving the server to the cpu before the transfer
PrepareOnCpu(r, todev) ==
    /\ reqs[r].srv = "binary"
    /\ reqs[r].stage = "DECODED"
    /\ todev \/ HasBuffer(reqs[r].data)
    /\ LET q == reqs[r] IN reqs' = [reqs EXCEPT ![r] =
          IF q.data.t # "dict" THEN InferFailed(q, "object has no attribute 'items'")
          ELSE IF ~todev THEN InferFailed(q, "device error")
          ELSE [Goto(q, "PREPARED") EXCEPT !.obs = Dict(PrepareItems(q.data.items, device))]]
    /\ device' = "cpu"
    /\ UNCHANGED <<model, smolvla_policy, demo_device, listening, loads>>
    /\ UNCHANGED <<upds, disk>>
    /\ UNCHANGED cvars

\* step 2, prepare; todev: whether the transfer to the device succeeds
Prepare(r, todev) ==
    /\ reqs[r].srv = "binary"
    /\ reqs[r].stage = "DECODED"
    /\ todev \/ HasBuffer(reqs[r].data)
    /\ LET q == reqs[r] IN reqs' = [reqs EXCEPT ![r] =
          IF q.data.t # "dict" THEN InferFailed(q, "object has no attribute 'items'")
          ELSE IF ~todev THEN InferFailed(q, "device error")
          ELSE [Goto(q, "PREPARED") EXCEPT !.obs = Dict(PrepareItems(q.data.items, device))]]
    /\ UNCHANGED <<model, device, smolvla_policy, demo_device, listening, loads>>
    /\ UNCHANGED <<upds, disk>>
    /\ UNCHANGED cvars

\* step 3 with a second try after the first one raised
InferRetrying(r, o) ==
    /\ reqs[r].srv = "binary"
    /\ reqs[r].stage = "PREPARED"
    /\ LET q == reqs[r] IN reqs' = [reqs EXCEPT ![r] =
          IF o.raises /\ q.ninvoke = 0
          THEN [q EXCEPT !.ninvoke = @ + 1, !.handle = model]
          ELSE IF o.raises
          THEN InferFailed([q EXCEPT !.ninvoke = @ + 1, !.handle = model,
                                     !.raised = [msg |-> o.msg, trace |-> o.trace]], o.msg)
          ELSE [Goto(q, "INFERRED") EXCEPT !.output = o.out, !.ninvoke = @ + 1,
                                            !.handle = model]]
    /\ UNCHANGED <<model, device, smolvla_policy, demo_device, listening, loads>>
    /\ UNCHANGED <<upds, disk>>
    /\ UNCHANGED cvars

\* step 3, model_inference(obs)
Infer(r, o) ==
    /\ reqs[r].srv = "binary"
    /\ reqs[r].stage = "PREPARED"
    /\ LET q == reqs[r] IN reqs' = [reqs EXCEPT ![r] =
          IF o.raises
          THEN InferFailed([q EXCEPT !.ninvoke = @ + 1, !.handle = model,
                                     !.raised = [msg |-> o.msg, trace |-> o.trace]], o.msg)
          ELSE [Goto(q, "INFERRED") EXCEPT !.output = o.out, !.ninvoke = @ + 1,
                                            !.handle = model]]
    /\ UNCHANGED <<model, device, smolvla_policy, demo_device, listening, loads>>
    /\ UNCHANGED <<upds, disk>>
    /\ UNCHANGED cvars

\* step 4, serialize the response
Encode(r) ==
    /\ reqs[r].srv = "binary"
    /\ reqs[r].stage = "INFERRED"
    /\ LET q == reqs[r] IN reqs' = [reqs EXCEPT ![r] =
          LET b == dict_to_binary(OkPayload(q.output)) IN
          IF b.ok THEN [Goto(q, "ENCODED") EXCEPT !.blob = b.bytes]
          ELSE InferFailed(q, b.err)]
    /\ UNCHANGED <<model, device, smolvla_policy, demo_device, listening, loads>>
    /\ UNCHANGED <<upds, disk>>
    /\ UNCHANGED cvars

\* return Response(response_blob, status=200, ...)
Respond(r) ==
    /\ reqs[r].srv = "binary"
    /\ reqs[r].stage = "ENCODED"
    /\ LET q == reqs[r] IN
         reqs' = [reqs EXCEPT ![r] = Reply(q, "RESPONDED", HttpResponse(OkStatus, q.blob, ""))]
    /\ UNCHANGED <<model, device, smolvla_policy, demo_device, listening, loads>>
    /\ UNCHANGED <<upds, disk>>
    /\ UNCHANGED cvars

\* ---- Flask_Demo1 infer()
\* request.headers.get('compressed', '').lower() == 'gzip'
Compressed(hdr) == hdr \in {"gzip", "GZIP", "Gzip"}

decode_request_data(raw_data, compressed, dev) ==
    LET z == IF compressed THEN gzip_decompress(raw_data)
             ELSE [ok |-> TRUE, err |-> "", bytes |-> raw_data]
    IN IF ~z.ok THEN Fail(z.err)
       ELSE LET j == json_loads(z.bytes) IN
            IF ~j.ok THEN Fail(j.err) ELSE deserialize_dict(j.val, dev)

DemoStatus == 200

\* ok: the response was built; otherwise the function raised err
encode_request_data(data, compressed) ==
    LET sd == serialize_dict(data)
        j == IF sd.ok THEN json_dumps(sd.val) ELSE [ok |-> FALSE, err |-> sd.err, bytes |-> <<>>]
    IN IF ~j.ok THEN [ok |-> FALSE, err |-> j.err, resp |-> NoResp]
       ELSE [ok |-> TRUE, err |-> "",
             resp |-> HttpResponse(DemoStatus,
                                   IF compressed THEN gzip_compress(j.bytes) ELSE j.bytes,
                                   IF compressed THEN "gzip" ELSE "raw")]

DemoErrorPayload == Dict(<<Item("message", Str("error"))>>)
DemoOkPayload(action_chunk) ==
    Dict(<<Item("action_chunk", action_chunk), Item("message", Str("success"))>>)

\* the except clause of the demo's infer()
DemoFailedUnwrapped(q) ==
    LET e == encode_request_data(DemoErrorPayload, FALSE) IN
    Reply(q, "FAILED", IF e.ok THEN e.resp ELSE FlaskInternalError)
DemoFailed(q) ==
    LET e == encode_request_data(DemoErrorPayload, Compressed(q.hdr)) IN
    Reply(q, "FAILED", IF e.ok THEN e.resp ELSE FlaskInternalError)

DemoDecode(r) ==
    /\ reqs[r].srv = "demo"
    /\ reqs[r].stage = "RECEIVED"
    /\ LET q == reqs[r] IN reqs' = [reqs EXCEPT ![r] =
          LET d == decode_request_data(q.body, Compressed(q.hdr), demo_device) IN
          IF d.ok THEN [Goto(q, "DECODED") EXCEPT !.data = d.val]
          ELSE DemoFailed(q)]
    /\ UNCHANGED <<model, device, smolvla_policy, demo_device, listening, loads>>
    /\ UNCHANGED <<upds, disk>>
    /\ UNCHANGED cvars

\* smolvla_policy.predict_action_chunk(data).detach().cpu().numpy()
DemoInfer(r, o) ==
    /\ reqs[r].srv = "demo"
    /\ reqs[r].stage = "DECODED"
    /\ LET q == reqs[r] IN reqs' = [reqs EXCEPT ![r] =
          IF smolvla_policy = NoModel THEN DemoFailed(q)
          ELSE IF o.raises
          THEN DemoFailed([q EXCEPT !.ninvoke = @ + 1, !.handle = smolvla_policy])
          ELSE [Goto(q, "INFERRED") EXCEPT !.output = o.out, !.ninvoke = @ + 1,
                                            !.handle = smolvla_policy]]
    /\ UNCHANGED <<model, device, smolvla_policy, demo_device, listening, loads>>
    /\ UNCHANGED <<upds, disk>>
    /\ UNCHANGED cvars

\* return encode_request_data({'action_chunk': ..., 'message': 'success'}, ...)
DemoEncode(r) ==
    /\ reqs[r].srv = "demo"
    /\ reqs[r].stage = "INFERRED"
    /\ LET q == reqs[r] IN reqs' = [reqs EXCEPT ![r] =
          LET e == encode_request_data(DemoOkPayload(q.output), Compressed(q.hdr)) IN
          IF e.ok THEN Reply([q EXCEPT !.blob = e.resp.body], "RESPONDED", e.resp)
          ELSE DemoFailed(q)]
    /\ UNCHANGED <<model, device, smolvla_policy, demo_device, listening, loads>>
    /\ UNCHANGED <<upds, disk>>
    /\ UNCHANGED cvars

\* ------------------------------------------------ server.py: /update_model
\* A path is the sequence of its components below the root; a name inside
\* an archive is relative or absolute.
Name(abs, parts) == [abs |-> abs, parts |-> parts]
Rel(parts) == Name(FALSE, parts)
Abs(parts) == Name(TRUE, parts)

\* os.path.join(path, member.name): an absolute second argument wins
path_join(path, name) == IF name.abs THEN name.parts ELSE path \o name.parts

\* os.path.abspath of an absolute path: "." and "" dropped, ".." pops
RECURSIVE NormPath(_, _)
NormPath(parts, acc) ==
    IF parts = <<>> THEN acc
    ELSE LET c == Head(parts) IN
         IF c \in {".", ""} THEN NormPath(Tail(parts), acc)
         ELSE IF c = ".." THEN
              NormPath(Tail(parts), IF acc = <<>> THEN acc ELSE SubSeq(acc, 1, Len(acc) - 1))
         ELSE NormPath(Tail(parts), Append(acc, c))
abspath(parts) == NormPath(parts, <<>>)

\* the text of an absolute path
RECURSIVE PathItems(_)
PathItems(parts) == IF parts = <<>> THEN "" ELSE "/" \o Head(parts) \o PathItems(Tail(parts))
PathStr(parts) == IF parts = <<>> THEN "/" ELSE PathItems(parts)

\* os.path.commonprefix of two strings: the longest common prefix, by character
commonprefix(a, b) ==
    LET m == IF Len(a) < Len(b) THEN Len(a) ELSE Len(b)
        n == CHOOSE k \in 0..m :
                 /\ SubSeq(a, 1, k) = SubSeq(b, 1, k)
                 /\ \A j \in (k + 1)..m : SubSeq(a, 1, j) # SubSeq(b, 1, j)
    IN SubSeq(a, 1, n)

\* is_within_directory, lines 143-147
is_within_directory_unchecked(directory, target) == TRUE
is_within_directory(directory, target) ==
    LET abs_directory == PathStr(abspath(directory))
        abs_target == PathStr(abspath(target))
        prefix == commonprefix(abs_directory, abs_target)
    IN prefix = abs_directory

\* the filesystem: one entry per file or directory
Entry(path, isdir) == [path |-> path, isdir |-> isdir]
UnderDir(dir, p) == Len(p) >= Len(dir) /\ SubSeq(p, 1, Len(dir)) = dir
Exists(d, path) == \E e \in d : e.path = path
IsDir(d, path) == \E e \in d : e.path = path /\ e.isdir
WriteEntry(d, path, isdir) == {e \in d : e.path # path} \cup {Entry(path, isdir)}
\* shutil.rmtree of TemporaryDirectory.cleanup
rmtree(d, dir) == {e \in d : ~UnderDir(dir, e.path)}
removeSkipped(d, path) == d
remove(d, path) == {e \in d : e.path # path}
listdir(d, dir) == {e.path[Len(dir) + 1] : e \in {x \in d : UnderDir(dir, x.path) /\ x.path # dir}}

\* tempfile.TemporaryDirectory(): a fresh directory under the system temp dir
TempRoot == <<"tmp">>
TempName(u) == "tmp" \o NumTok[u]
TempDir(u) == Append(TempRoot, TempName(u))
TarPath(u) == Append(TempDir(u), "uploaded.tar")

\* a tar member
Member(name, isdir) == [name |-> name, isdir |-> isdir]
\* an archive: well-formed or not, with its members in order
Archive(valid, members) == [valid |-> valid, members |-> members]

\* TarFile.extractall without an extraction filter: each member is written
\* at the path its name resolves to, missing directories above it included
RECURSIVE MakeDirs(_, _, _)
MakeDirs(d, path, n) ==
    IF n >= Len(path) THEN d
    ELSE MakeDirs(IF Exists(d, SubSeq(path, 1, n)) THEN d
                  ELSE WriteEntry(d, SubSeq(path, 1, n), TRUE), path, n + 1)
ExtractMember(d, path, m) ==
    LET target == abspath(path_join(path, m.name))
        first == IF UnderDir(path, target) THEN Len(path) + 1 ELSE Len(target)
    IN IF target = <<>> THEN d
       ELSE WriteEntry(MakeDirs(d, target, first), target, m.isdir)
RECURSIVE extractall(_, _, _)
extractall(d, path, members) ==
    IF members = <<>> THEN d
    ELSE extractall(ExtractMember(d, path, Head(members)), path, Tail(members))

\* safe_extract, lines 149-154: every member is checked, then all are extracted
Traversal == "Attempted Path Traversal in Tar File"
\* each member is written as soon as it has passed its own check
safe_extract_eager(d, path, members) ==
    LET bad == {i \in 1..Len(members) :
                   ~is_within_directory(path, path_join(path, members[i].name))}
        k == IF bad = {} THEN Len(members) + 1
             ELSE CHOOSE i \in bad : \A j \in bad : i <= j
    IN [ok |-> bad = {}, err |-> IF bad = {} THEN "" ELSE Traversal,
        disk |-> extractall(d, path, SubSeq(members, 1, k - 1))]
safe_extract(d, path, members) ==
    IF \E i \in 1..Len(members) :
           ~is_within_directory(path, path_join(path, members[i].name))
    THEN [ok |-> FALSE, err |-> Traversal, disk |-> d]
    ELSE [ok |-> TRUE, err |-> "", disk |-> extractall(d, path, members)]

\* str.strip() of the device form field
RECURSIVE LStrip(_)
LStrip(s) == IF Len(s) > 0 /\ SubSeq(s, 1, 1) = " " THEN LStrip(SubSeq(s, 2, Len(s))) ELSE s
RECURSIVE RStrip(_)
RStrip(s) ==
    IF Len(s) > 0 /\ SubSeq(s, Len(s), Len(s)) = " " THEN RStrip(SubSeq(s, 1, Len(s) - 1)) ELSE s
strip(s) == LStrip(RStrip(s))
EndsWithAnywhere(s, suffix) ==
    \E i \in 1..Len(s) : i + Len(suffix) - 1 <= Len(s) /\ SubSeq(s, i, i + Len(suffix) - 1) = suffix
EndsWith(s, suffix) ==
    Len(s) >= Len(suffix) /\ SubSeq(s, Len(s) - Len(suffix) + 1, Len(s)) = suffix
\* torch.device(device_str) raises RuntimeError on a string that names no device
TorchDevices == {"cpu", "cuda:0"}

\* the multipart form of an upload
NoArchive == Archive(FALSE, <<>>)
Upload(dev, has_file, filename, archive) ==
    [device |-> dev, has_file |-> has_file, filename |-> filename, archive |-> archive]
NoUpload == Upload("", FALSE, "", NoArchive)

\* a model directory packed under one top-level directory
PackedArchive ==
    Archive(TRUE, <<Member(Rel(<<"policy">>), TRUE),
                    Member(Rel(<<"policy", "weights.bin">>), FALSE)>>)
\* model files packed at the top level
FlatArchive ==
    Archive(TRUE, <<Member(Rel(<<"config.json">>), FALSE),
                    Member(Rel(<<"weights.bin">>), FALSE)>>)
\* a good member followed by a parent-relative one
ParentArchive ==
    Archive(TRUE, <<Member(Rel(<<"weights.bin">>), FALSE),
                    Member(Rel(<<"..", "evil">>), FALSE)>>)
\* a good member followed by one with an absolute name
AbsoluteArchive ==
    Archive(TRUE, <<Member(Rel(<<"weights.bin">>), FALSE),
                    Member(Abs(<<"etc", "evil">>), FALSE)>>)
\* a member that resolves into a sibling of the scratch directory whose name
\* starts with the scratch directory's name
SiblingArchive(u) ==
    Archive(TRUE, <<Member(Rel(<<"..", TempName(u) \o "x", "evil">>), FALSE)>>)
\* a parent-relative member between two good ones
MiddleArchive ==
    Archive(TRUE, <<Member(Rel(<<"config.json">>), FALSE),
                    Member(Rel(<<"..", "evil">>), FALSE),
                    Member(Rel(<<"weights.bin">>), FALSE)>>)
\* a parent-relative member followed by a good one
FirstArchive ==
    Archive(TRUE, <<Member(Rel(<<"..", "evil">>), FALSE),
                    Member(Rel(<<"weights.bin">>), FALSE)>>)
\* a single file at the top level
SingleFileArchive == Archive(TRUE, <<Member(Rel(<<"weights.bin">>), FALSE)>>)
\* a well-formed archive with no member
EmptyArchive == Archive(TRUE, <<>>)
\* bytes that are no tar archive
BrokenArchive == Archive(FALSE, <<>>)
Archives(u) ==
    {PackedArchive, FlatArchive, ParentArchive, AbsoluteArchive, SiblingArchive(u), BrokenArchive,
     MiddleArchive, FirstArchive, SingleFileArchive, EmptyArchive}

\* the first upload ranges over every kind of form, the second over a good
\* archive on another device and a traversal attempt, the later ones are a
\* good archive back on the cpu
Uploads(u) ==
    IF u = 1
    THEN {Upload("", TRUE, "model.tar", a) : a \in Archives(u)}
         \cup {Upload(" cuda:0 ", TRUE, "model.tar", FlatArchive),
               Upload("gpu0", TRUE, "model.tar", PackedArchive),
               Upload("", FALSE, "", NoArchive),
               Upload("", TRUE, "", NoArchive),
               Upload("cuda:0", TRUE, "model.tar.gz", PackedArchive),
               Upload("gpu0", TRUE, "model.zip", PackedArchive)}
    ELSE IF u = 2
    THEN {Upload("cuda:0", TRUE, "model.tar", PackedArchive),
          Upload("", TRUE, "model.tar", ParentArchive)}
    ELSE {Upload("cpu", TRUE, "model.tar", FlatArchive)}

\* the answer of update_model: a status and one JSON key with its text;
\* the key "html" stands for Flask's own error page
UpdResponse(status, key, text) == [status |-> status, key |-> key, text |-> text]
NoUpdResp == UpdResponse(0, "", "")
BadRequestStatus == 400
NoFilePart == UpdResponse(BadRequestStatus, "error", "No file part")
NoSelectedFile == UpdResponse(BadRequestStatus, "error", "No selected file")
OnlyTar == UpdResponse(BadRequestStatus, "error", "Only .tar (uncompressed archive) is allowed")
UpdError(e) == UpdResponse(ErrorStatus, "error", e)
UpdOk == UpdResponse(OkStatus, "message", "Model updated successfully")
UpdCrash == UpdResponse(500, "html", "Internal Server Error")

NewUpd ==
    [stage |-> "NEW", up |-> NoUpload, resp |-> NoUpdResp, nresp |-> 0,
     m_submit |-> NoModel, m_accept |-> NoModel, m_answer |-> NoModel,
     temp_made |-> FALSE, nextracted |-> 0, model_dir |-> <<>>, nloads |-> 0,
     new_model |-> NoModel, prior |-> {}, path |-> <<>>]

UGoto(q, stage) == [q EXCEPT !.stage = stage, !.path = Append(@, stage)]
UAnswered(u) == upds[u].stage = "ANSWERED"
UReply(q, resp) ==
    [UGoto(q, "ANSWERED") EXCEPT !.resp = resp, !.nresp = @ + 1,
                                 !.prior = {v \in Upds : UAnswered(v)}]

\* the operator posts the form to /update_model; the call blocks, so the
\* next upload follows the answer to the previous one
UpdSubmit(u, up) ==
    /\ listening["binary"]
    /\ upds[u].stage = "NEW"
    /\ \A v \in Upds : v < u => UAnswered(v)
    /\ upds' = [upds EXCEPT ![u] = [UGoto(@, "QUEUED") EXCEPT !.up = up, !.m_submit = model]]
    /\ UNCHANGED <<model, device, smolvla_policy, demo_device, listening, loads, reqs, disk>>
    /\ UNCHANGED cvars

\* the listener hands the request to update_model()
UpdAccept(u) ==
    /\ upds[u].stage = "QUEUED"
    /\ threaded("binary") \/ ~Busy("binary")
    /\ upds' = [upds EXCEPT ![u] = [UGoto(@, "RECEIVED") EXCEPT !.m_accept = model]]
    /\ UNCHANGED <<model, device, smolvla_policy, demo_device, listening, loads, reqs, disk>>
    /\ UNCHANGED cvars

\* the checks on the file part first, the device only for an upload that passed
UpdValidateThenDevice(u) ==
    /\ upds[u].stage = "RECEIVED"
    /\ LET q == upds[u]
           device_str == strip(q.up.device)
           answer(resp) == [UReply(q, resp) EXCEPT !.m_answer = model]
           rejected == ~q.up.has_file \/ q.up.filename = "" \/ ~EndsWith(q.up.filename, ".tar")
       IN IF device_str # "" /\ device_str \notin TorchDevices
          THEN /\ upds' = [upds EXCEPT ![u] = answer(UpdCrash)]
               /\ UNCHANGED device
          ELSE /\ device' = IF device_str # "" /\ ~rejected THEN device_str ELSE device
               /\ upds' = [upds EXCEPT ![u] =
                     IF ~q.up.has_file THEN answer(NoFilePart)
                     ELSE IF q.up.filename = "" THEN answer(NoSelectedFile)
                     ELSE IF ~EndsWith(q.up.filename, ".tar") THEN answer(OnlyTar)
                     ELSE UGoto(q, "VALIDATED")]
    /\ UNCHANGED <<model, smolvla_policy, demo_device, listening, loads, reqs, disk>>
    /\ UNCHANGED cvars

\* lines 118-131: the device field, then the checks on the file part
UpdValidate(u) ==
    /\ upds[u].stage = "RECEIVED"
    /\ LET q == upds[u]
           device_str == strip(q.up.device)
           answer(resp) == [UReply(q, resp) EXCEPT !.m_answer = model]
       IN IF device_str # "" /\ device_str \notin TorchDevices
          THEN /\ upds' = [upds EXCEPT ![u] = answer(UpdCrash)]
               /\ UNCHANGED device
          ELSE /\ device' = IF device_str # "" THEN device_str ELSE device
               /\ upds' = [upds EXCEPT ![u] =
                     IF ~q.up.has_file THEN answer(NoFilePart)
                     ELSE IF q.up.filename = "" THEN answer(NoSelectedFile)
                     ELSE IF ~EndsWith(q.up.filename, ".tar") THEN answer(OnlyTar)
                     ELSE UGoto(q, "VALIDATED")]
    /\ UNCHANGED <<model, smolvla_policy, demo_device, listening, loads, reqs, disk>>
    /\ UNCHANGED cvars

\* lines 133-159: scratch directory, saved upload, guarded extraction
CleanupSkipped(d, dir) == d
Cleanup(d, dir) == rmtree(d, dir)
UpdExtract(u) ==
    /\ upds[u].stage = "VALIDATED"
    /\ LET q == upds[u]
           temp_dir == TempDir(u)
           made == WriteEntry(WriteEntry(disk, temp_dir, TRUE), TarPath(u), FALSE)
           x == safe_extract(made, temp_dir, q.up.archive.members)
           failed(e) == [UReply([q EXCEPT !.temp_made = TRUE], UpdError(e))
                            EXCEPT !.m_answer = model]
           \* the entries extraction had written when the check raised
           written == Cardinality(x.disk \ made)
       IN IF ~q.up.archive.valid
          THEN /\ upds' = [upds EXCEPT ![u] = failed("file could not be opened successfully")]
               /\ disk' = Cleanup(made, temp_dir)
          ELSE IF ~x.ok
          THEN /\ upds' = [upds EXCEPT ![u] = [failed(x.err) EXCEPT !.nextracted = written]]
               /\ disk' = Cleanup(x.disk, temp_dir)
          ELSE /\ upds' = [upds EXCEPT ![u] =
                     [UGoto(q, "EXTRACTED") EXCEPT !.temp_made = TRUE,
                                                  !.nextracted = Len(q.up.archive.members)]]
               /\ disk' = remove(x.disk, TarPath(u))
    /\ UNCHANGED <<model, device, smolvla_policy, demo_device, listening, loads, reqs>>
    /\ UNCHANGED cvars

\* lines 161-166: a single top-level directory is the model directory
ModelDir(d, temp_dir) ==
    LET extracted_items == listdir(d, temp_dir) IN
    IF Cardinality(extracted_items) = 1
       /\ \A n \in extracted_items : IsDir(d, Append(temp_dir, n))
    THEN Append(temp_dir, CHOOSE n \in extracted_items : TRUE)
    ELSE temp_dir

\* line 173 and its alternatives
PublishTorn(new_model, ok) == IF ok THEN [model EXCEPT !.id = new_model.id] ELSE model
PublishOnFailure(new_model, ok) == new_model
PublishDropped(new_model, ok) == model
PublishOrReset(new_model, ok) == IF ok THEN new_model ELSE NoModel
Publish(new_model, ok) == IF ok THEN new_model ELSE model

\* lines 161-180: load the new model, publish it, answer
UpdLoad(u, ok) ==
    /\ upds[u].stage = "EXTRACTED"
    /\ LET q == upds[u]
           temp_dir == TempDir(u)
           model_dir == ModelDir(disk, temp_dir)
           new_model == load_model(PathStr(model_dir), device, loads + 1)
           done == [q EXCEPT !.model_dir = model_dir, !.nloads = @ + 1]
       IN /\ model' = Publish(new_model, ok)
          /\ loads' = IF ok THEN loads + 1 ELSE loads
          /\ upds' = [upds EXCEPT ![u] =
                IF ok THEN [UReply(done, UpdOk) EXCEPT !.new_model = new_model,
                                                       !.m_answer = model']
                ELSE [UReply(done, UpdError("model could not be loaded"))
                         EXCEPT !.m_answer = model']]
          /\ disk' = Cleanup(disk, temp_dir)
    /\ UNCHANGED <<device, smolvla_policy, demo_device, listening, reqs>>
    /\ UNCHANGED cvars

ServerInit ==
    /\ model = NoModel
    /\ device = "None"
    /\ smolvla_policy = NoModel
    /\ demo_device = "None"
    /\ listening = [srv \in Servers |-> FALSE]
    /\ loads = 0
    /\ reqs = [r \in Reqs |-> NewReq]
    /\ upds = [u \in Upds |-> NewUpd]
    /\ disk = {}

ModelPaths == {"/models/policy"}

ServerNext ==
    \/ \E path \in ModelPaths, dev \in Devices : main(path, dev)
    \/ \E path \in ModelPaths, dev \in Devices : demo_main(path, dev)
    \/ \E srv \in Servers : serve_app(srv)
    \/ \E r \in Reqs, srv \in Servers : \E rq \in RequestsFor(srv) : Submit(r, srv, rq)
    \/ \E r \in Reqs : Accept(r)
    \/ \E r \in Reqs : Decode(r)
    \/ \E r \in Reqs, todev \in BOOLEAN : Prepare(r, todev)
    \/ \E r \in Reqs, o \in InferOutcomes : Infer(r, o)
    \/ \E r \in Reqs : Encode(r)
    \/ \E r \in Reqs : Respond(r)
    \/ \E r \in Reqs : DemoDecode(r)
    \/ \E r \in Reqs, o \in InferOutcomes : DemoInfer(r, o)
    \/ \E r \in Reqs : DemoEncode(r)

\* the binary server with its two routes, /infer and /update_model
SwapRequests == {[hdr |-> "", body |-> ObsBody]}
SwapOutcomes == {o \in InferOutcomes : o.raises \/ o.out = Action1}
\* the control loop of one robot posts to /infer; send_inference_request
\* blocks, so its next request follows the answer to the previous one
SwapSubmit(r, rq) ==
    /\ \A q \in Reqs : q < r => Answered(q)
    /\ Submit(r, "binary", rq)
SwapNext ==
    \/ \E path \in ModelPaths : main(path, "cpu")
    \/ serve_app("binary")
    \/ \E r \in Reqs : \E rq \in SwapRequests : SwapSubmit(r, rq)
    \/ \E r \in Reqs : Accept(r)
    \/ \E r \in Reqs : Decode(r)
    \/ \E r \in Reqs : Prepare(r, TRUE)
    \/ \E r \in Reqs, o \in SwapOutcomes : Infer(r, o)
    \/ \E r \in Reqs : Encode(r)
    \/ \E r \in Reqs : Respond(r)
    \/ \E u \in Upds : \E up \in Uploads(u) : UpdSubmit(u, up)
    \/ \E u \in Upds : UpdAccept(u)
    \/ \E u \in Upds : UpdValidate(u)
    \/ \E u \in Upds : UpdExtract(u)
    \/ \E u \in Upds, ok \in BOOLEAN : UpdLoad(u, ok)

\* ------------------------------------------------ claims on the servers
\* the payload a response carries, decoded with the codec of its server
ResponsePayload(q) ==
    IF q.srv = "binary" THEN binary_to_dict(q.resp.body)
    ELSE LET z == IF q.resp.compressed = "gzip" THEN gzip_decompress(q.resp.body)
                  ELSE [ok |-> TRUE, err |-> "", bytes |-> q.resp.body]
         IN IF z.ok THEN json_loads(z.bytes) ELSE Fail(z.err)

CarriesErrorPayload(q) ==
    LET d == ResponsePayload(q) IN
    /\ d.ok
    /\ d.val.t = "dict"
    /\ HasKey(d.val.items, "message")
    /\ \/ HasKey(d.val.items, "status") /\ Lookup(d.val.items, "status") = Str("error")
       \/ Lookup(d.val.items, "message") = Str("error")

Visited(q, stage) == \E i \in 1..Len(q.path) : q.path[i] = stage
InSection(q) == q.stage \in {"RECEIVED", "DECODED", "PREPARED", "INFERRED", "ENCODED"}

\* C7: a request to /infer handled while no model is loaded is answered
\* with status 503 and an encoded error payload; its body is not decoded and
\* the model is not invoked.
C7_NotReadyIs503 ==
    \A r \in Reqs :
        (Answered(r) /\ ~reqs[r].had_model)
            => /\ reqs[r].resp.status = 503
               /\ CarriesErrorPayload(reqs[r])
               /\ ~Visited(reqs[r], "DECODED")
               /\ reqs[r].ninvoke = 0
               /\ reqs[r].nresp = 1

\* the part of C7 that server.py satisfies
BinaryNotReadyIs503 ==
    \A r \in Reqs :
        (Answered(r) /\ ~reqs[r].had_model /\ reqs[r].srv = "binary")
            => /\ reqs[r].resp.status = 503
               /\ CarriesErrorPayload(reqs[r])
               /\ ~Visited(reqs[r], "DECODED")
               /\ reqs[r].ninvoke = 0
               /\ reqs[r].nresp = 1

\* C8: every failed /infer request, whatever the stage of the failure, is
\* answered with an encoded error payload and a status other than 200, on
\* the binary server and on the base64/JSON server.
C8_FailureIsNon200 ==
    \A r \in Reqs :
        reqs[r].stage = "FAILED"
            => /\ reqs[r].nresp = 1
               /\ CarriesErrorPayload(reqs[r])
               /\ reqs[r].resp.status # 200

\* the part of C8 that server.py satisfies
BinaryFailureIsNon200 ==
    \A r \in Reqs :
        (reqs[r].stage = "FAILED" /\ reqs[r].srv = "binary")
            => /\ reqs[r].nresp = 1
               /\ CarriesErrorPayload(reqs[r])
               /\ reqs[r].resp.status \in {500, 503}

\* C9: on server.py a request is answered 200 exactly when it succeeded,
\* and then the body is the encoding of {status: "ok", output: result} with
\* result the value the model returned for this request.
C9_SuccessPayload ==
    \A r \in Reqs :
        (reqs[r].srv = "binary" /\ Answered(r))
            => /\ (reqs[r].resp.status = 200) = (reqs[r].stage = "RESPONDED")
               /\ reqs[r].stage = "RESPONDED"
                     => /\ reqs[r].ninvoke = 1
                        /\ binary_to_dict(reqs[r].resp.body)
                              = Okv(Dict(<<Item("status", Str("ok")),
                                           Item("output", reqs[r].output)>>))

C9_Witness ==
    \E r1, r2 \in Reqs :
        /\ r1 # r2
        /\ reqs[r1].srv = "binary" /\ reqs[r2].srv = "binary"
        /\ reqs[r1].stage = "RESPONDED" /\ reqs[r2].stage = "RESPONDED"
        /\ reqs[r1].output = Action1 /\ reqs[r2].output = Action2
        /\ reqs[r1].resp.body # reqs[r2].resp.body

\* C10: on each server at most one request is between the entry of infer()
\* and its response at any time.
C10_OneRequestAtATime ==
    \A srv \in Servers :
        Cardinality({r \in Reqs : reqs[r].srv = srv /\ InSection(reqs[r])}) <= 1

C10_Witness ==
    \E r1, r2 \in Reqs :
        /\ reqs[r1].srv = reqs[r2].srv
        /\ reqs[r1].stage = "INFERRED"
        /\ reqs[r2].stage = "QUEUED"

\* ------------------------------------------------ claims on the hot swap
\* the /infer requests whose inference step ran
Inferred(r) == reqs[r].srv = "binary" /\ reqs[r].ninvoke > 0
\* the /update_model requests answered with 200
Swapped(u) == UAnswered(u) /\ upds[u].resp.status = OkStatus
\* a handle is whole when it is one that startup or a successful update loaded
WholeHandle(h) ==
    \/ \E path \in ModelPaths, dev \in Devices : h = load_model(path, dev, 1)
    \/ \E u \in Upds : Swapped(u) /\ h = upds[u].new_model

\* C11: whatever the interleaving of /infer and /update_model, a request runs
\* its inference on the model that was live when its handler began (a publish
\* that comes later does not reach it), a request issued after a publish runs on
\* that model or a later one, and the handle a request uses is always one whole
\* loaded model, never a mix of two.
C11_AtomicSwap ==
    \A r \in Reqs : Inferred(r) =>
        /\ reqs[r].handle = reqs[r].m_accept
        /\ reqs[r].handle.id >= reqs[r].m_submit.id
        /\ WholeHandle(reqs[r].handle)
\* one request answered by the startup model, an update published after it, and
\* another request that was issued before the publish and served after it
C11_Witness ==
    \E r, q \in Reqs, u \in Upds :
        /\ Inferred(r) /\ Answered(r) /\ reqs[r].handle.id = 1
        /\ Swapped(u)
        /\ Inferred(q) /\ reqs[q].m_submit.id = 1 /\ reqs[q].handle = upds[u].new_model

\* the updates whose archive was opened and went through the guard
Guarded(u) == upds[u].temp_made /\ upds[u].up.archive.valid
\* the guard let the archive through: its members were extracted
GuardAccepted(u) == \E i \in 1..Len(upds[u].path) : upds[u].path[i] = "EXTRACTED"
\* the place a member resolves to is the scratch directory or below it
Descendant(u, m) == UnderDir(TempDir(u), abspath(path_join(TempDir(u), m.name)))
MembersOf(u) == {upds[u].up.archive.members[i] : i \in 1..Len(upds[u].up.archive.members)}

\* C12: the traversal guard lets an archive through if and only if every
\* member resolves to a place inside the scratch directory; a member that
\* resolves outside (parent-relative, absolute, or into a sibling directory
\* whose name starts with the scratch directory's name) aborts the update.
C12_GuardIsDescendant ==
    \A u \in Upds : Guarded(u) =>
        (GuardAccepted(u) <=> \A m \in MembersOf(u) : Descendant(u, m))
\* the two kinds of escape the guard does stop
C12_GuardStopsParentAndAbsolute ==
    \A u \in Upds : Guarded(u) /\ GuardAccepted(u) =>
        \A m \in MembersOf(u) :
            /\ ~m.name.abs
            /\ Len(abspath(path_join(TempDir(u), m.name))) > Len(TempRoot)

\* the /infer requests handled after update u was answered and before any
\* later update replaced the model
ServedAfter(u) ==
    {r \in Reqs : /\ Inferred(r)
                  /\ u \in reqs[r].after
                  /\ \A v \in reqs[r].after \ (upds[u].prior \cup {u}) : ~Swapped(v)}
\* a member named ../evil or with an absolute name
Escapes(m) == m.name.abs \/ m.name = Rel(<<"..", "evil">>)
HasEscape(u) == \E m \in MembersOf(u) : Escapes(m)
Resolved(u, m) == abspath(path_join(TempDir(u), m.name))

LoadFailed(u) == UAnswered(u) /\ upds[u].nloads > 0 /\ upds[u].new_model = NoModel

\* C14: when load_model fails inside update_model, the request is answered
\* with an error, the model reference after the request is the one from before
\* it, and the /infer requests handled afterwards run on that old model.
C14_LoadFailureKeepsModel ==
    \A u \in Upds : LoadFailed(u) =>
        /\ upds[u].resp.status = ErrorStatus /\ upds[u].resp.key = "error"
        /\ upds[u].m_answer = upds[u].m_accept
        /\ \A r \in ServedAfter(u) : reqs[r].handle = upds[u].m_accept
\* a failed load on a serving process, followed by an inference
C14_Witness ==
    \E u \in Upds : LoadFailed(u) /\ upds[u].m_accept # NoModel /\ ServedAfter(u) # {}

\* C15: after an update answered with 200 the model reference is the model
\* that update loaded, a new one, and every /infer request handled after it
\* and before the next successful update runs on that model.
C15_SuccessPublishes ==
    \A u \in Upds : Swapped(u) =>
        /\ upds[u].m_answer = upds[u].new_model
        /\ upds[u].new_model # NoModel
        /\ upds[u].new_model.id > upds[u].m_accept.id
        /\ (\A v \in Upds : Swapped(v) => v \in upds[u].prior \cup {u})
               => model = upds[u].new_model
        /\ \A r \in ServedAfter(u) : reqs[r].handle = upds[u].new_model
\* two successful updates, an inference between them and one after the second
C15_Witness ==
    \E u, v \in Upds :
        /\ Swapped(u) /\ Swapped(v) /\ u \in upds[v].prior
        /\ ServedAfter(u) # {} /\ ServedAfter(v) # {}

\* the uploads that name a file whose name does not end in .tar
NotTar(u) ==
    /\ upds[u].stage # "NEW"
    /\ upds[u].up.has_file /\ upds[u].up.filename # ""
    /\ LET name == upds[u].up.filename IN
         Len(name) < 4 \/ SubSeq(name, Len(name) - 3, Len(name)) # ".tar"
DeviceAccepted(u) == strip(upds[u].up.device) \in TorchDevices \cup {""}

\* C16: an upload whose file name does not end in .tar never gets a scratch
\* directory, nothing of it is extracted and load_model is not called for it;
\* it is answered with a refusal (400 "Only .tar ..." when the handler reaches
\* the file checks) and the model reference is the one from before the request.
C16_NotTarRejectedEarly ==
    \A u \in Upds : NotTar(u) =>
        /\ ~upds[u].temp_made
        /\ \A e \in disk : ~UnderDir(TempDir(u), e.path)
        /\ upds[u].nextracted = 0 /\ upds[u].nloads = 0
        /\ upds[u].stage \in {"QUEUED", "RECEIVED", "ANSWERED"}
        /\ UAnswered(u) =>
              /\ upds[u].resp.status # OkStatus
              /\ DeviceAccepted(u) => upds[u].resp = OnlyTar
              /\ upds[u].m_answer = upds[u].m_accept
C16_Witness ==
    \E u \in Upds : NotTar(u) /\ UAnswered(u) /\ upds[u].resp = OnlyTar
                     /\ upds[u].m_accept # NoModel

\* what is on disk in or below the scratch directory of update u
ScratchEntries(u) == {e \in disk : UnderDir(TempDir(u), e.path)}

\* C17: once update_model has created its scratch directory, that directory
\* and everything in it are gone when the request has been answered, whether
\* the model was loaded, a member was refused, the archive could not be opened
\* or load_model failed.
C17_ScratchRemoved ==
    \A u \in Upds : upds[u].temp_made /\ UAnswered(u) => ScratchEntries(u) = {}
\* an archive that could not be opened and a successful update, both answered
C17_Witness ==
    \E u, v \in Upds :
        /\ upds[u].temp_made /\ UAnswered(u) /\ upds[u].up.archive = BrokenArchive
        /\ upds[v].temp_made /\ Swapped(v) /\ upds[v].nextracted > 0

\* the three answers update_model produces itself
UpdatedOutcome(u) ==
    /\ upds[u].resp.status = OkStatus /\ upds[u].resp.key = "message"
    /\ upds[u].new_model # NoModel
MalformedOutcome(u) ==
    /\ upds[u].resp.status = BadRequestStatus /\ upds[u].resp.key = "error"
    /\ \/ ~upds[u].up.has_file
       \/ upds[u].up.filename = ""
       \/ NotTar(u)
FailedOutcome500(u) ==
    /\ upds[u].resp.status = ErrorStatus /\ upds[u].resp.key = "error"
    /\ upds[u].temp_made
ThreeOutcomes(u) ==
    /\ upds[u].nresp = 1
    /\ UpdatedOutcome(u) \/ MalformedOutcome(u) \/ FailedOutcome500(u)

\* C18: every /update_model request is answered once, with 200 and a
\* `message` (model replaced), with 400 and an `error` (no file part, empty
\* file name, name not ending in .tar) or with 500 and an `error` (failure
\* during extraction or load), whatever the form holds.
C18_ThreeOutcomes ==
    \A u \in Upds : UAnswered(u) => ThreeOutcomes(u)
\* the same for the forms whose device field is empty or names a device
C18_ThreeOutcomesOnKnownDevice ==
    \A u \in Upds : UAnswered(u) /\ DeviceAccepted(u) => ThreeOutcomes(u)

\* ------------------------------------------------ the codecs on their own
\* the legacy client's request encoding, test_post.py lines 48-51
post_encode(data_dict, compressed) ==
    LET sd == serialize_dict(data_dict)
        j == IF sd.ok THEN json_dumps(sd.val) ELSE [ok |-> FALSE, err |-> sd.err, bytes |-> <<>>]
    IN IF ~j.ok THEN [ok |-> FALSE, err |-> j.err, body |-> <<>>, hdr |-> ""]
       ELSE [ok |-> TRUE, err |-> "",
             body |-> IF compressed THEN gzip_compress(j.bytes) ELSE j.bytes,
             hdr |-> IF compressed THEN "gzip" ELSE "raw"]

\* .lower() of a header value
lower(h) == IF h \in {"gzip", "GZIP", "Gzip"} THEN "gzip" ELSE h

\* the legacy client's response decoding, test_post.py lines 56-60
post_decode(resp, dev) ==
    IF resp.status # 200 THEN Fail("RuntimeError")
    ELSE LET content_encoding == lower(resp.compressed)
             z == IF content_encoding = "gzip" THEN gzip_decompress(resp.body)
                  ELSE [ok |-> TRUE, err |-> "", bytes |-> resp.body]
         IN IF ~z.ok THEN Fail(z.err)
            ELSE LET j == json_loads(z.bytes) IN
                 IF ~j.ok THEN Fail(j.err) ELSE deserialize_dict(j.val, dev)

\* payloads of at most MaxItems entries
KeyNames == <<"image", "state", "base64numpy_x", "task">>
CodecKeys == {KeyNames[i] : i \in 1..MaxItems}
BinaryValues ==
    {Str("pick"), Str(""), Num(0), Num(7),
     Buf("uint8", <<2>>, <<1, 1>>), Buf("float32", <<1, 2>>, <<0, 255>>),
     Buf("float64", <<0>>, <<>>), PyNone, Unpicklable}
\* views that are not C-contiguous: the transpose of a 2 x 2 array, every
\* second element of a vector from its second element on, and a vector reversed
ViewValues ==
    {View("uint8", <<2, 2>>, <<1, 2>>, 0, <<1, 2, 3, 4>>),
     View("float32", <<2>>, <<2>>, 1, <<5, 6, 7, 8>>),
     View("uint8", <<3>>, <<-1>>, 2, <<1, 2, 3>>)}
TextValues == BinaryValues \cup {Tensor("float32", <<2>>, <<3, 3>>, "cpu")}
DistinctKeys(items) == \A i, j \in 1..Len(items) : i # j => items[i].k # items[j].k
PayloadsOver(values) ==
    {Dict(items) : items \in
        {it \in UNION {[1..n -> [k : CodecKeys, v : values]] : n \in 0..MaxItems} :
            DistinctKeys(it)}}
\* payloads for serialize_dict alone: plain keys and a key that carries the
\* numpy marker of the key "x"
TextKeys == {"x", "state", NUMPY_MARKER \o "x"}
TextDictValues ==
    {Str("pick"), Num(7), Buf("uint8", <<2>>, <<1, 1>>), Tensor("float32", <<2>>, <<3, 3>>, "cpu")}
TextPayloads ==
    {Dict(items) : items \in
        {it \in UNION {[1..n -> [k : TextKeys, v : TextDictValues]] : n \in 0..MaxItems} :
            DistinctKeys(it)}}
CodecPaths == {"binary", "request", "response", "text"}
NoWire == [ok |-> FALSE, err |-> "", bytes |-> <<>>]

CodecIdle ==
    /\ k_pc = "idle" /\ k_path = "" /\ k_flag = FALSE
    /\ k_x = PyNone /\ k_wire = NoWire /\ k_out = Fail("")

CodecInit ==
    /\ k_pc = "input"
    /\ k_path \in CodecPaths
    /\ k_flag \in (IF k_path \in {"binary", "text"} THEN {FALSE} ELSE BOOLEAN)
    /\ k_x \in (CASE k_path = "binary" -> PayloadsOver(BinaryValues \cup ViewValues)
                  [] k_path = "text" -> TextPayloads
                  [] OTHER -> PayloadsOver(TextValues))
    /\ k_wire = NoWire
    /\ k_out = Fail("")

KFrame ==
    /\ UNCHANGED <<c_pc, c_args, req_body, attempt, last_exception, c_result, c_raised, c_log>>
    /\ UNCHANGED <<model, device, smolvla_policy, demo_device, listening, loads, reqs, upds, disk>>
    /\ UNCHANGED <<k_path, k_flag, k_x>>

\* dict_to_binary(x)
BinaryEncode ==
    /\ k_pc = "input" /\ k_path = "binary"
    /\ k_wire' = dict_to_binary(k_x)
    /\ k_pc' = "wire"
    /\ UNCHANGED k_out
    /\ KFrame

\* binary_to_dict(bytes)
BinaryDecode ==
    /\ k_pc = "wire" /\ k_path = "binary" /\ k_wire.ok
    /\ k_out' = binary_to_dict(k_wire.bytes)
    /\ k_pc' = "done"
    /\ UNCHANGED k_wire
    /\ KFrame

\* infer() lines 67-79 on the decoded mapping
PrepareDecoded ==
    /\ k_pc = "done" /\ k_path = "binary"
    /\ k_out.ok /\ k_out.val.t = "dict"
    /\ k_out' = Okv(Dict(PrepareItems(k_out.val.items, "cpu")))
    /\ k_pc' = "prepared"
    /\ UNCHANGED k_wire
    /\ KFrame

\* request path: the client encodes
RequestEncode ==
    /\ k_pc = "input" /\ k_path = "request"
    /\ k_wire' = post_encode(k_x, k_flag)
    /\ k_pc' = "wire"
    /\ UNCHANGED k_out
    /\ KFrame

\* request path: the server decodes, infer() line 46 and decode_request_data
RequestDecode ==
    /\ k_pc = "wire" /\ k_path = "request" /\ k_wire.ok
    /\ k_out' = decode_request_data(k_wire.body, Compressed(k_wire.hdr), "cpu")
    /\ k_pc' = "done"
    /\ UNCHANGED k_wire
    /\ KFrame

\* response path: the server encodes
ResponseEncode ==
    /\ k_pc = "input" /\ k_path = "response"
    /\ k_wire' = encode_request_data(k_x, k_flag)
    /\ k_pc' = "wire"
    /\ UNCHANGED k_out
    /\ KFrame

\* response path: the client decodes
ResponseDecode ==
    /\ k_pc = "wire" /\ k_path = "response" /\ k_wire.ok
    /\ k_out' = post_decode(k_wire.resp, "cpu")
    /\ k_pc' = "done"
    /\ UNCHANGED k_wire
    /\ KFrame

\* serialize_dict(d)
TextEncode ==
    /\ k_pc = "input" /\ k_path = "text"
    /\ k_wire' = serialize_dict(k_x)
    /\ k_pc' = "wire"
    /\ UNCHANGED k_out
    /\ KFrame

\* deserialize_dict(serialize_dict(d))
TextDecode ==
    /\ k_pc = "wire" /\ k_path = "text" /\ k_wire.ok
    /\ k_out' = deserialize_dict(k_wire.val, "cpu")
    /\ k_pc' = "done"
    /\ UNCHANGED k_wire
    /\ KFrame

CodecNext ==
    \/ PrepareDecoded
    \/ TextEncode
    \/ TextDecode
    \/ BinaryEncode
    \/ BinaryDecode
    \/ RequestEncode
    \/ RequestDecode
    \/ ResponseEncode
    \/ ResponseDecode

\* ------------------------------------------------ claims on the codecs
\* strings, scalar numbers and contiguous buffers of the supported dtypes
RECURSIVE PlainItems(_)
PlainItems(items) ==
    items = <<>> \/ (/\ Head(items).v.t \in {"str", "num", "buf"}
                     /\ Head(items).v.t = "buf" => Head(items).v.dtype \in DTypes
                     /\ PlainItems(Tail(items)))
PlainPayload(x) == x.t = "dict" /\ PlainItems(x.items)

\* C19: for a payload of strings, scalar numbers and contiguous buffers of
\* the supported element types, dict_to_binary succeeds and binary_to_dict of
\* its bytes returns the payload: the same keys in the same order, the same
\* strings and numbers, and every buffer with its element type, shape and
\* values.
C19_BinaryRoundTrip ==
    k_path = "binary" /\ PlainPayload(k_x) =>
        /\ k_pc = "wire" => k_wire.ok
        /\ k_pc = "done" => k_out = Okv(k_x)
\* a payload with a string, then a two-dimensional buffer, came back
C19_Witness ==
    /\ k_path = "binary" /\ k_pc = "done" /\ k_out.ok
    /\ Len(k_x.items) = 2
    /\ k_x.items[1].v.t = "str" /\ k_x.items[2].v.t = "buf" /\ Len(k_x.items[2].v.shape) = 2

\* the same payload sent without gzip
PlainRequest(x) ==
    LET e == post_encode(x, FALSE) IN
    IF e.ok THEN decode_request_data(e.body, Compressed(e.hdr), "cpu") ELSE Fail(e.err)
PlainResponse(x) ==
    LET e == encode_request_data(x, FALSE) IN
    IF e.ok THEN post_decode(e.resp, "cpu") ELSE Fail(e.err)

\* C20: on the request path and on the response path of the base64/JSON
\* transport, encoding a payload with gzip and decoding it gives what encoding
\* it without gzip and decoding it gives, and the gzip-wrapped body is not the
\* plain body.
C20_GzipTransparent ==
    k_pc = "done" /\ k_flag =>
        /\ k_path = "request" =>
              /\ k_out = PlainRequest(k_x)
              /\ k_wire.body # post_encode(k_x, FALSE).body
        /\ k_path = "response" =>
              /\ k_out = PlainResponse(k_x)
              /\ k_wire.resp.body # encode_request_data(k_x, FALSE).resp.body
\* a gzip-wrapped payload with a buffer was decoded on the request path
C20_Witness ==
    /\ k_pc = "done" /\ k_flag /\ k_path = "request" /\ k_out.ok
    /\ \E i \in 1..Len(k_x.items) : k_x.items[i].v.t = "buf"
    /\ k_wire.hdr = "gzip"

\* ------------------------------------------------ more claims on the servers
\* the answered requests of the base64/JSON server
DemoAnswered(r) == reqs[r].srv = "demo" /\ Answered(r)
\* a body is gzip-wrapped when it starts with the gzip magic and inflates
Wrapped(body) == body # <<>> /\ body[1] = GZIP_MAGIC /\ gzip_decompress(body).ok

\* C21: on the base64/JSON server the answer to /infer is flagged and wrapped
\* as the request was: header `compressed: gzip` gives a gzip-wrapped body
\* flagged gzip, header raw or no header gives an unwrapped body flagged raw,
\* on the success path and on the error path.
C21_FlagFollowsRequest ==
    \A r \in Reqs : DemoAnswered(r) =>
        IF reqs[r].hdr = "gzip"
        THEN reqs[r].resp.compressed = "gzip" /\ Wrapped(reqs[r].resp.body)
        ELSE /\ reqs[r].hdr \in {"raw", ""}
             /\ reqs[r].resp.compressed = "raw"
             /\ ~Wrapped(reqs[r].resp.body)
             /\ json_loads(reqs[r].resp.body).ok
\* a gzip request that failed and a raw request that succeeded
C21_Witness ==
    \E r, q \in Reqs :
        /\ DemoAnswered(r) /\ reqs[r].hdr = "gzip" /\ reqs[r].stage = "FAILED"
        /\ DemoAnswered(q) /\ reqs[q].hdr = "raw" /\ reqs[q].stage = "RESPONDED"

\* ------------------------------------------------ more claims on the codecs
\* a value whose type is not string, number, buffer or mapping
Foreign(v) == v.t \notin {"str", "num", "buf", "view", "tensor", "dict"}
HasForeign(x) == x.t = "dict" /\ \E i \in 1..Len(x.items) : Foreign(x.items[i].v)
Encoded == k_pc \in {"wire", "done"}

\* C22: a payload holding a value whose type is outside {string, number,
\* buffer, nested mapping} is never encoded to bytes: the encoder fails with
\* a serialization error, on the binary codec and on the textual one.
C22_ForeignTypeRefused ==
    Encoded /\ HasForeign(k_x) => ~k_wire.ok
\* what the encoders do refuse: objects the pickler or json.dumps cannot take
C22_UnserializableRefused ==
    Encoded /\ (\E i \in 1..Len(k_x.items) : k_x.items[i].v = Unpicklable) => ~k_wire.ok

\* the /infer requests of the binary server whose body went through decode
BinaryDecoded(r) ==
    /\ reqs[r].srv = "binary"
    /\ \E i \in 1..Len(reqs[r].path) : reqs[r].path[i] \in {"DECODED", "FAILED"}
    /\ reqs[r].had_model
\* bodies that no encoder produced
Malformed(body) == \A x \in {ObsPayload, TextPayload, Str("ping")} : body # dict_to_binary(x).bytes

\* C23: decoding a malformed or truncated body fails with a deserialization
\* error and runs no code chosen by the sender: decoding has no effect but
\* returning a payload or raising.
C23_DecodeRunsNoCode ==
    \A r \in Reqs : BinaryDecoded(r) =>
        /\ reqs[r].ran = <<>>
        /\ Malformed(reqs[r].body) => reqs[r].stage = "FAILED"
\* the half that holds: a malformed or truncated body is answered as a failure
C23_MalformedFails ==
    \A r \in Reqs : BinaryDecoded(r) /\ Malformed(reqs[r].body) =>
        reqs[r].stage = "FAILED" /\ reqs[r].ninvoke = 0

\* ------------------------------------------------ more claims on the client
Exhausted == c_pc = "raised" /\ c_raised = ExhaustedError(c_args.max_retries, last_exception)
FailedPosts == Cardinality({i \in PostIdx : FailedOutcome(c_log[i].outcome)})
SleepIdx == {i \in 1..Len(c_log) : IsSleep(c_log[i])}

\* C24: every sleep comes right after a POST and right before the next POST,
\* and every POST but the last of the call failed and is followed by a sleep,
\* so a successful POST never is. A call that ends in exhaustion made k >= 1
\* attempts, all failed, and slept k-1 times (not at all when it made no
\* attempt); a call that returns after k failed attempts slept k times.
C24_SleepBetweenAttempts ==
    /\ \A i \in SleepIdx :
          /\ i > 1 /\ IsPost(c_log[i-1])
          /\ i < Len(c_log) => IsPost(c_log[i+1])
          /\ Finished => i < Len(c_log)
    /\ \A i \in PostIdx : i < Len(c_log) =>
          IsSleep(c_log[i+1]) /\ FailedOutcome(c_log[i].outcome)
    /\ Exhausted =>
          IF Posts = 0 THEN Sleeps = 0
          ELSE /\ IsPost(c_log[Len(c_log)])
               /\ FailedOutcome(c_log[Len(c_log)].outcome)
               /\ Sleeps = Posts - 1
    /\ c_pc = "returned" =>
          /\ IsPost(c_log[Len(c_log)])
          /\ ~FailedOutcome(c_log[Len(c_log)].outcome)
          /\ Sleeps = Posts - 1
\* a call that returned after two failed attempts
C24_Witness == c_pc = "returned" /\ FailedPosts = 2 /\ Sleeps = 2

\* ---------------------------------------------------------------------
\* Time spent in send_inference_request
\* ---------------------------------------------------------------------
RECURSIVE SumTook(_)
SumTook(log) == IF log = <<>> THEN 0 ELSE log[1].took + SumTook(Tail(log))
Elapsed == SumTook(c_log)
WorstCase(a) == (a.max_retries + 1) * a.timeout + a.max_retries * a.retry_delay

\* C25 (as stated): the timeout is per attempt and there is no deadline
\* over the call; the call never blocks longer than
\* (max_retries+1) * timeout + max_retries * retry_delay.
C25_WorstCaseBlocking ==
    c_pc # "idle" /\ c_args.max_retries >= 0 => Elapsed <= WorstCase(c_args)

\* C25 (the part the loop guarantees): every attempt is handed the same
\* timeout, no attempt is skipped because of the time already spent, and the
\* time spent is the time of the attempts plus one retry_delay per sleep.
C25_NoOverallDeadline ==
    /\ \A i \in 1..Len(c_log) :
          IsPost(c_log[i]) => c_log[i].timeout = c_args.timeout
    /\ Exhausted /\ c_args.max_retries >= 0 => Posts = c_args.max_retries + 1
    /\ Sleeps <= (IF c_args.max_retries >= 0 THEN c_args.max_retries ELSE 0)
    /\ Elapsed >= Sleeps * (IF c_pc = "idle" THEN 0 ELSE c_args.retry_delay)

\* a call that went on attempting after more than timeout had been spent
C25_PastTimeout ==
    /\ c_pc = "returned"
    /\ Posts >= 3
    /\ Elapsed > WorstCase(c_args)

\* ---------------------------------------------------------------------
\* An undecodable body on server.py
\* ---------------------------------------------------------------------
\* the request is inside infer() past the readiness check and its body does
\* not unpickle
Undecodable(q) ==
    /\ q.srv = "binary" /\ q.had_model
    /\ ~binary_to_dict(q.body).ok

\* C26: the step that decodes an undecodable body of /infer answers the
\* request with status 500 and the encoding of {status: "error", message:
\* the decode error's text}; the model has not been invoked for the request
\* and the step leaves the model reference as it was.
C26_UndecodableIs500 ==
    [][\A r \in Reqs :
         (reqs[r].stage = "RECEIVED" /\ reqs'[r] # reqs[r] /\ Undecodable(reqs[r]))
            => /\ reqs'[r].stage = "FAILED"
               /\ reqs'[r].resp.status = 500
               /\ binary_to_dict(reqs'[r].resp.body)
                     = Okv(Dict(<<Item("status", Str("error")),
                                  Item("message", Str(binary_to_dict(reqs[r].body).err))>>))
               /\ reqs'[r].nresp = 1
               /\ reqs'[r].ninvoke = 0
               /\ ~Visited(reqs'[r], "DECODED")
               /\ model' = model /\ model # NoModel]_vars

C26_Witness ==
    \E r \in Reqs :
        /\ Undecodable(reqs[r]) /\ reqs[r].stage = "FAILED"
        /\ reqs[r].resp.status = 500
        /\ binary_to_dict(reqs[r].resp.body).ok
        /\ reqs[r].ninvoke = 0


\* ---------------------------------------------------------------------
\* The stages of one /infer request on server.py
\* ---------------------------------------------------------------------
StageOrder == <<"QUEUED", "RECEIVED", "DECODED", "PREPARED", "INFERRED", "ENCODED", "RESPONDED">>
IsPrefix(p, s) == Len(p) <= Len(s) /\ \A i \in 1..Len(p) : p[i] = s[i]
EndsFailed(p) == p # <<>> /\ p[Len(p)] = "FAILED"
\* the stages passed before the branch to FAILED, if it was taken
Ordered(p) == IF EndsFailed(p) THEN SubSeq(p, 1, Len(p) - 1) ELSE p

\* C27: the stages a request of server.py has passed are an initial part of
\* RECEIVED, DECODED, PREPARED, INFERRED, ENCODED, RESPONDED, followed at most
\* by FAILED, which is entered from inside the handler and never left; a
\* request answered 200 passed all of them; a request has one response once
\* it is answered and none before.
C27_StagesInOrder ==
    \A r \in Reqs :
        reqs[r].srv = "binary" =>
            LET p == reqs[r].path IN
            /\ p # <<>> /\ p[Len(p)] = reqs[r].stage
            /\ IsPrefix(Ordered(p), StageOrder)
            /\ EndsFailed(p) => Len(Ordered(p)) \in 2..6
            /\ reqs[r].stage = "RESPONDED" => p = StageOrder
            /\ reqs[r].nresp = (IF Answered(r) THEN 1 ELSE 0)
            /\ Answered(r) => reqs[r].resp # NoResp

C27_Witness ==
    \E r1, r2 \in Reqs :
        /\ reqs[r1].srv = "binary" /\ reqs[r2].srv = "binary"
        /\ reqs[r1].path = StageOrder /\ reqs[r1].nresp = 1
        /\ reqs[r2].path = <<"QUEUED", "RECEIVED", "DECODED", "PREPARED", "FAILED">>
        /\ reqs[r2].nresp = 1

\* ---------------------------------------------------------------------
\* The model invocation of one /infer request on server.py
\* ---------------------------------------------------------------------
\* model_inference raised in this request
InvocationRaised(q) == q.srv = "binary" /\ q.raised # NoRaise
\* the request entered infer() after request f had been answered
ServedNext(r, f) == r > f /\ reqs[r].srv = "binary" /\ Visited(reqs[r], "RECEIVED")

\* C28: a request of server.py invokes the model at most once, exactly once
\* when it is answered 200; when the invocation raised, the request is
\* answered 500 with the encoding of {status: "error", message: str(e)} and
\* nothing of the traceback, the model and the listener are as before, and
\* the requests served after it are answered as their own steps decide.
C28_InvokedOnce ==
    \A r \in Reqs :
        reqs[r].srv = "binary" =>
            /\ reqs[r].ninvoke <= 1
            /\ reqs[r].stage = "RESPONDED" => reqs[r].ninvoke = 1
            /\ Visited(reqs[r], "INFERRED") => reqs[r].ninvoke = 1 /\ reqs[r].raised = NoRaise
            /\ InvocationRaised(reqs[r]) =>
                  /\ reqs[r].stage = "FAILED" /\ reqs[r].ninvoke = 1
                  /\ reqs[r].resp.status = 500 /\ reqs[r].nresp = 1
                  /\ binary_to_dict(reqs[r].resp.body)
                        = Okv(Dict(<<Item("status", Str("error")),
                                     Item("message", Str(reqs[r].raised.msg))>>))
                  /\ listening["binary"] /\ model = reqs[r].handle /\ model # NoModel
                  /\ \A n \in Reqs :
                        (ServedNext(n, r) /\ Answered(n)) =>
                            (reqs[n].resp.status = 200) = (reqs[n].path = StageOrder)

\* a request answered 200 after the invocation of the request before it raised
C28_Witness ==
    \E r, n \in Reqs :
        /\ InvocationRaised(reqs[r]) /\ reqs[r].resp.status = 500
        /\ reqs[r].raised.trace # ""
        /\ ServedNext(n, r) /\ reqs[n].stage = "RESPONDED" /\ reqs[n].ninvoke = 1

\* ---------------------------------------------------------------------
\* The model reference inside one /infer request
\* ---------------------------------------------------------------------
\* the request passed the readiness check of server.py's infer()
PassedCheck(q) == q.srv = "binary" /\ Visited(q, "RECEIVED") /\ q.m_check # NoModel

\* C29: in a request that passed the readiness check, the reference the
\* check tested stays the value of the global until the request is answered,
\* and the inference step of the request uses that reference: it is never a
\* different handle and never the absent one.
C29_SameReference ==
    \A r \in Reqs :
        PassedCheck(reqs[r]) =>
            /\ InHandler(r) => model = reqs[r].m_check
            /\ reqs[r].ninvoke > 0 =>
                  reqs[r].handle = reqs[r].m_check /\ reqs[r].handle # NoModel
            /\ reqs[r].m_check = reqs[r].m_accept

\* a request that ran on the reference its check tested while an update was
\* waiting, the update being published afterwards
C29_Witness ==
    \E r \in Reqs, u \in Upds :
        /\ PassedCheck(reqs[r]) /\ reqs[r].ninvoke = 1
        /\ reqs[r].handle = reqs[r].m_check
        /\ Swapped(u) /\ upds[u].m_submit = reqs[r].handle
        /\ model = upds[u].new_model /\ model # reqs[r].handle

\* ---------------------------------------------------------------------
\* Check before write in update_model
\* ---------------------------------------------------------------------
\* the positions of the entries of an upload's archive that fail the check
\* against the scratch directory of update u
OffendingIn(u, a) ==
    {i \in 1..Len(a.members) :
        ~is_within_directory(TempDir(u), path_join(TempDir(u), a.members[i].name))}
\* the archives update u may carry, and their offending positions worked out once
ArchivesSeen(u) == Archives(u) \cup {NoArchive}
OffendingAt == [u \in Upds |-> [a \in ArchivesSeen(u) |-> OffendingIn(u, a)]]
Offending(u) == OffendingAt[u][upds[u].up.archive]
\* update_model opened the archive of update u
Opened(u) == upds[u].temp_made /\ upds[u].up.archive.valid

\* C30: when an entry of the opened archive fails the traversal check, at
\* whatever position, the request is answered 500 with the traversal error
\* and extraction has written no entry of the archive; entries are written
\* only from an archive all of whose entries passed the check.
C30_CheckBeforeWrite ==
    \A u \in Upds :
        Opened(u) =>
            /\ Offending(u) # {} =>
                  /\ upds[u].nextracted = 0
                  /\ UAnswered(u) /\ upds[u].resp = UpdError(Traversal)
                  /\ ~Visited(upds[u], "EXTRACTED")
            /\ upds[u].nextracted > 0 => Offending(u) = {}

\* archives refused with the offending entry first, in the middle and last
C30_Witness ==
    \E u \in Upds :
        /\ Opened(u) /\ UAnswered(u) /\ upds[u].nextracted = 0
        /\ Len(upds[u].up.archive.members) = 3
        /\ Offending(u) = {2}

\* ---------------------------------------------------------------------
\* The model root picked by update_model
\* ---------------------------------------------------------------------
\* update_model of update u reached load_model
Loaded(u) == upds[u].nloads > 0
\* the places inside the scratch directory that the members of the archive of
\* update u resolve to
PlacesOf(u, a) ==
    {abspath(path_join(TempDir(u), a.members[i].name)) :
        i \in {j \in 1..Len(a.members) :
                  /\ UnderDir(TempDir(u), abspath(path_join(TempDir(u), a.members[j].name)))
                  /\ abspath(path_join(TempDir(u), a.members[j].name)) # TempDir(u)}}
Places(u) == PlacesOf(u, upds[u].up.archive)
\* the names of the top-level entries of the extracted tree
TopLevelOf(u, a) == {p[Len(TempDir(u)) + 1] : p \in PlacesOf(u, a)}
TopLevel(u) == TopLevelOf(u, upds[u].up.archive)
\* a top-level entry is a directory when a member names it as one or lies below it
TopIsDirOf(u, a, n) ==
    \E i \in 1..Len(a.members) :
        LET m == a.members[i]
            at == abspath(path_join(TempDir(u), m.name))
        IN /\ UnderDir(TempDir(u), at) /\ UnderDir(Append(TempDir(u), n), at)
           /\ m.isdir \/ Len(at) > Len(TempDir(u)) + 1
TopIsDir(u, n) == TopIsDirOf(u, upds[u].up.archive, n)
\* the root the rule of lines 162-166 gives for an extracted archive
RootOf(u, a) ==
    IF Cardinality(TopLevelOf(u, a)) = 1 /\ \A n \in TopLevelOf(u, a) : TopIsDirOf(u, a, n)
    THEN Append(TempDir(u), CHOOSE n \in TopLevelOf(u, a) : TRUE)
    ELSE TempDir(u)
\* worked out once for every archive an update may carry
RootAt ==
    [u \in Upds |-> [a \in ArchivesSeen(u) |->
        [root |-> RootOf(u, a), counted |-> TopLevelOf(u, a)]]]

\* C31: when update_model loads a model, the model root is the single
\* top-level entry of the extracted tree if there is exactly one and it is a
\* directory, and the scratch directory in every other case (no entry, one
\* file, two or more entries); uploaded.tar is not among the entries counted.
C31_ModelRoot ==
    \A u \in Upds :
        Loaded(u) =>
            /\ "uploaded.tar" \notin RootAt[u][upds[u].up.archive].counted
            /\ upds[u].model_dir = RootAt[u][upds[u].up.archive].root

\* the four shapes of the extracted tree have been loaded from
C31_Witness ==
    \E u \in Upds :
        /\ Loaded(u) /\ TopLevel(u) = {"policy"}
        /\ upds[u].model_dir = Append(TempDir(u), "policy")
C31_WitnessFlat ==
    \E u \in Upds :
        /\ Loaded(u) /\ Cardinality(TopLevel(u)) = 2 /\ upds[u].model_dir = TempDir(u)
C31_WitnessFile ==
    \E u \in Upds :
        /\ Loaded(u) /\ TopLevel(u) = {"weights.bin"} /\ upds[u].model_dir = TempDir(u)
C31_WitnessEmpty ==
    \E u \in Upds :
        /\ Loaded(u) /\ upds[u].up.archive.members = <<>> /\ upds[u].model_dir = TempDir(u)

\* ---------------------------------------------------------------------
\* Round trip of serialize_dict / deserialize_dict
\* ---------------------------------------------------------------------
KeysOf(items) == {items[i].k : i \in 1..Len(items)}
\* two mappings with the same keys and the same value under every key
SameMapping(a, b) ==
    /\ a.t = "dict" /\ b.t = "dict"
    /\ KeysOf(a.items) = KeysOf(b.items)
    /\ Len(a.items) = Len(b.items)
    /\ \A k \in KeysOf(a.items) : Lookup(a.items, k) = Lookup(b.items, k)
TextDone == k_path = "text" /\ k_pc = "done"
Marked(k) == StartsWith(k, NUMPY_MARKER) \/ StartsWith(k, TORCH_MARKER)
MarkedKey(x) == \E k \in KeysOf(x.items) : Marked(k)

\* C32 (as stated): deserialize_dict(serialize_dict(d)) is d again, key by
\* key and value by value, for every mapping with unique string keys, also
\* when a key of d starts with a marker or is the marked name of a buffer key.
C32_TextRoundTrip ==
    /\ (k_path = "text" /\ k_pc \in {"wire", "done"}) => k_wire.ok
    /\ TextDone => k_out.ok /\ SameMapping(k_out.val, k_x)

\* C32 (the part that holds): the round trip returns d when no key of d
\* starts with a marker.
C32_RoundTripUnmarkedKeys ==
    (TextDone /\ ~MarkedKey(k_x)) => k_out.ok /\ SameMapping(k_out.val, k_x)

\* a buffer and a tensor restored under their keys
C32_UnmarkedWitness ==
    /\ TextDone /\ ~MarkedKey(k_x) /\ k_out.ok
    /\ \E i, j \in 1..Len(k_x.items) : k_x.items[i].v.t = "buf" /\ k_x.items[j].v.t = "tensor"

\* ---------------------------------------------------------------------
\* Buffers that are not C-contiguous
\* ---------------------------------------------------------------------
\* a mapping with every array replaced by its element type, shape and
\* elements in row-major order
Logical(x) ==
    Dict([i \in 1..Len(x.items) |->
            IF IsArray(x.items[i].v)
            THEN Item(x.items[i].k,
                      Buf(x.items[i].v.dtype, x.items[i].v.shape, Elements(x.items[i].v)))
            ELSE x.items[i]])
\* the mapping with every array replaced by np.ascontiguousarray of it
ContiguousCopy(x) ==
    Dict([i \in 1..Len(x.items) |->
            IF x.items[i].v.t = "view"
            THEN Item(x.items[i].k,
                      Buf(x.items[i].v.dtype, x.items[i].v.shape, Elements(x.items[i].v)))
            ELSE x.items[i]])
HasView(x) == \E i \in 1..Len(x.items) : x.items[i].v.t = "view" /\ ~C_CONTIGUOUS(x.items[i].v)
Strided(v) == v.t = "tensor" /\ "strides" \in DOMAIN v
BinaryDone == k_path = "binary" /\ k_pc \in {"done", "prepared"}

\* C33: a picklable payload holding views that are not C-contiguous encodes,
\* and its decoding has, key by key, the element type, shape and elements of
\* the decoding of the encoding of its contiguous copy; after the prepare
\* step of infer() every array of the decoded mapping is a tensor laid out
\* contiguously that holds those elements.
C33_ContiguityNormalized ==
    (BinaryDone /\ HasView(k_x) /\ Picklable(k_x)) =>
        LET c == binary_to_dict(dict_to_binary(ContiguousCopy(k_x)).bytes) IN
        /\ k_wire.ok /\ c.ok
        /\ k_pc = "done" => k_out.ok /\ Logical(k_out.val) = Logical(c.val)
        /\ k_pc = "prepared" =>
              /\ Len(k_out.val.items) = Len(c.val.items)
              /\ \A i \in 1..Len(c.val.items) :
                    IF IsArray(c.val.items[i].v)
                    THEN k_out.val.items[i]
                           = Item(c.val.items[i].k,
                                  Tensor(c.val.items[i].v.dtype, c.val.items[i].v.shape,
                                         c.val.items[i].v.data, "cpu"))
                    ELSE k_out.val.items[i] = c.val.items[i]

\* a transposed array came out of the decoder Fortran-ordered and was
\* prepared; a strided vector was sent next to it
C33_Witness ==
    /\ k_path = "binary" /\ k_pc = "prepared"
    /\ \E i \in 1..Len(k_x.items) : F_CONTIGUOUS(k_x.items[i].v)
    /\ \E i \in 1..Len(k_x.items) :
          k_x.items[i].v.t = "view" /\ ~F_CONTIGUOUS(k_x.items[i].v)
    /\ \E i \in 1..Len(k_out.val.items) :
          k_out.val.items[i].v.t = "tensor" /\ k_out.val.items[i].v.data = <<1, 3, 2, 4>>

\* ---------------------------------------------------------------------
\* The device written by update_model
\* ---------------------------------------------------------------------
\* the device an update names, when torch.device accepts it
NamedIn(dev) == IF strip(dev) \in {"cpu", "cuda:0"} THEN strip(dev) ELSE ""
\* worked out once for every device field an upload may carry
DeviceFields == {""} \cup {up.device : up \in UNION {Uploads(u) : u \in Upds}}
NamedAt == [dev \in DeviceFields |-> NamedIn(dev)]
Named(u) == IF upds[u].stage = "NEW" THEN "" ELSE NamedAt[upds[u].up.device]
\* the updates that named a device and are past lines 118-120
Wrote == {u \in Upds : Named(u) # "" /\ upds[u].stage \notin {"NEW", "QUEUED", "RECEIVED"}}
\* the updates that named a device and were answered before request r entered infer()
NamedBefore(r) == {u \in reqs[r].after : Named(u) # ""}
LastNamed(S) == CHOOSE u \in S : \A w \in S : w <= u
UpdFailed(u) == UAnswered(u) /\ upds[u].resp.status \in {400, 500}
TensorDevices(q) ==
    IF q.obs.t # "dict" THEN {}
    ELSE {q.obs.items[i].v.dev :
            i \in {j \in 1..Len(q.obs.items) : q.obs.items[j].v.t = "tensor"}}

\* C34: an update that names a device torch accepts sets the process-wide
\* device whatever its answer (200, 400 or 500): the device is the one named
\* by the last such update answered, and an /infer request served after it
\* puts its tensors on that device, also when that update failed and the
\* model is still the one loaded before it.
C34_DeviceWrittenFirst ==
    /\ Wrote # {} => device = Named(LastNamed(Wrote))
    /\ \A r \in Reqs :
          (reqs[r].srv = "binary" /\ Visited(reqs[r], "PREPARED") /\ NamedBefore(r) # {})
              => TensorDevices(reqs[r]) = {Named(LastNamed(NamedBefore(r)))}

\* a request whose tensors are on the device a rejected update named, run
\* on the model that startup loaded on the cpu
C34_Witness ==
    \E r \in Reqs, u \in Upds :
        /\ reqs[r].srv = "binary" /\ reqs[r].ninvoke = 1
        /\ u \in reqs[r].after /\ UpdFailed(u) /\ Named(u) = "cuda:0"
        /\ TensorDevices(reqs[r]) = {"cuda:0"}
        /\ reqs[r].handle.dev = "cpu" /\ reqs[r].handle.id = 1

\* ---------------------------------------------------------------------
\* The model reference stays set
\* ---------------------------------------------------------------------
\* C35: no step of /infer, /update_model or startup takes the model
\* reference from a model back to none, and a request that is answered
\* while a model is loaded is not answered 503.
C35_ModelStaysLoaded ==
    [][/\ model # NoModel => model' # NoModel
       /\ \A r \in Reqs :
             (model # NoModel /\ reqs[r].srv = "binary" /\ ~Answered(r)
                 /\ reqs'[r].stage \in {"RESPONDED", "FAILED"})
               => reqs'[r].resp.status # 503]_vars

\* a request answered 503 before any load, an update that loaded the first
\* model, a failed update after it, and a request answered 200 at the end
C35_Witness ==
    \E r1, r2 \in Reqs, u, w \in Upds :
        /\ reqs[r1].srv = "binary" /\ reqs[r1].resp.status = 503
        /\ Swapped(u) /\ upds[u].m_accept = NoModel
        /\ w > u /\ UpdFailed(w)
        /\ reqs[r2].stage = "RESPONDED" /\ w \in reqs[r2].after
        /\ model # NoModel

\* ---------------------------------------------------------------------
\* What /infer leaves alone
\* ---------------------------------------------------------------------
InferStep == \E r \in Reqs : reqs[r].srv = "binary" /\ InHandler(r) /\ reqs'[r] # reqs[r]

\* C36: no step of infer(), whether the request ends in 200, 500 or 503,
\* changes the model reference or the device; two requests with no update
\* answered between them are accepted under the same model.
C36_InferLeavesGlobals ==
    [][/\ InferStep => model' = model /\ device' = device
       /\ \A r, q \in Reqs :
             (r < q /\ reqs'[r].srv = "binary" /\ reqs'[q].srv = "binary"
                 /\ Visited(reqs'[r], "RECEIVED") /\ Visited(reqs'[q], "RECEIVED")
                 /\ reqs'[q].after = reqs'[r].after)
               => reqs'[q].m_accept = reqs'[r].m_accept]_vars

\* after an update named another device, a request failed with 500 in the
\* model call and the next one was answered 200 by the same model
C36_Witness ==
    \E r, q \in Reqs :
        /\ r < q /\ reqs[r].srv = "binary" /\ reqs[q].srv = "binary"
        /\ reqs[r].stage = "FAILED" /\ reqs[r].resp.status = ErrorStatus
        /\ reqs[q].stage = "RESPONDED" /\ reqs[q].resp.status = OkStatus
        /\ reqs[q].handle = model /\ reqs[q].after = reqs[r].after
        /\ device # "cpu"
\* a request answered 503 left the server without a model
C36_WitnessNotReady ==
    \E r \in Reqs :
        /\ reqs[r].srv = "binary" /\ reqs[r].resp.status = NotReadyStatus
        /\ model = NoModel

\* ---------------------------------------------------------------------
\* A negative max_retries
\* ---------------------------------------------------------------------
\* the smallest max_retries a caller passes: range(max_retries + 1) is empty
\* for -1 and for -2, and only for -1 is max_retries + 1 the number 0
MinRetries == -2
InLoop == c_pc # "idle" /\ ~(c_pc = "raised" /\ c_raised.kind = "serialize")

\* C37: a call with a negative max_retries whose payload was serialized
\* makes no POST and no sleep, and ends by raising the exhaustion error
\* with last error None; it made 0 attempts, whatever max_retries + 1 is.
C37_NegativeRetries ==
    (InLoop /\ c_args.max_retries < 0) =>
        /\ c_log = <<>> /\ Posts = 0 /\ Sleeps = 0 /\ attempt = 0
        /\ last_exception = NoExc
        /\ c_pc \in {"loop", "raised"}
        /\ c_pc = "raised" =>
              c_raised = [type |-> "RuntimeError", kind |-> "exhausted", cause |-> "",
                          attempts |-> c_args.max_retries + 1, last |-> NoExc]
        /\ c_args.max_retries < -1 => Posts # c_args.max_retries + 1

C37_Witness ==
    /\ c_args.max_retries = MinRetries /\ c_pc = "raised"
    /\ c_raised.kind = "exhausted" /\ c_raised.last = NoExc /\ c_log = <<>>

\* ---------------------------------------------------------------------
\* What every attempt sends
\* ---------------------------------------------------------------------
\* dict_to_binary of the payloads a caller passes, worked out once
ClientBodies == [d \in ClientPayloads |-> dict_to_binary(d)]
SameRequest(e, f) ==
    /\ e.body = f.body /\ e.url = f.url
    /\ e.headers = f.headers /\ e.timeout = f.timeout

\* C38: the payload is encoded once, on entry: after that no step of the
\* call changes the encoded bytes or the arguments, every POST of the call
\* carries exactly the bytes dict_to_binary gave for the payload, the url,
\* the octet-stream header and the timeout of the call, and so any two
\* POSTs of one call send the same request whatever the attempts between
\* them ended in.
C38_SameRequestEveryAttempt ==
    [][/\ c_pc # "idle" => (req_body' = req_body /\ c_args' = c_args)
       /\ \A i \in 1..Len(c_log') : IsPost(c_log'[i]) =>
             /\ c_log'[i].body = ClientBodies[c_args'.data].bytes
             /\ c_log'[i].url = DefaultUrl
             /\ c_log'[i].headers = [ContentType |-> "application/octet-stream"]
             /\ c_log'[i].timeout = DefaultTimeout
             /\ \A j \in 1..Len(c_log') :
                   IsPost(c_log'[j]) => SameRequest(c_log'[i], c_log'[j])
       /\ c_log' # c_log =>
             /\ Len(c_log') = Len(c_log) + 1
             /\ SubSeq(c_log', 1, Len(c_log)) = c_log]_vars

\* three POSTs of one call, the first two failed in different ways
C38_Witness ==
    /\ c_pc = "returned" /\ Posts = 3
    /\ \E i, j \in PostIdx :
          /\ i < j /\ FailedOutcome(c_log[i].outcome) /\ FailedOutcome(c_log[j].outcome)
          /\ c_log[i].outcome.kind = "timeout" /\ c_log[j].outcome.kind = "resp"
          /\ SameRequest(c_log[i], c_log[j])

\* ---------------------------------------------------------------------
\* Termination of a call
\* ---------------------------------------------------------------------
\* requests.post(..., timeout=timeout) returns or raises, time.sleep returns,
\* and the statements between them are straight-line code
\* one outcome for every way an attempt can end
LiveOutcomes ==
    {Response(OkStatus, OkBody), Response(OkStatus, TruncBody), Response(ErrorStatus, ErrBody),
     NoResponse("timeout"), NoResponse("connerr"), NoResponse("reqexc")}
AttemptEnds == \E outcome \in LiveOutcomes : Post(outcome)
ClientFairness ==
    /\ WF_vars(AttemptEnds)
    /\ WF_vars(Sleep)
    /\ WF_vars(RaiseExhausted)
Max(a, b) == IF a >= b THEN a ELSE b

\* C39: when every attempt returns or times out, a call that was made
\* returns a decoded payload or raises, and at no point has it made more
\* than max_retries + 1 POSTs or more than max_retries sleeps.
C39_Terminates ==
    /\ [](c_pc # "idle" =>
            /\ Posts <= Max(c_args.max_retries + 1, 0)
            /\ Sleeps <= Max(c_args.max_retries, 0)
            /\ c_pc = "returned" => c_result # NoResult
            /\ c_pc = "raised" => c_raised # NoExc)
    /\ (c_pc # "idle") ~> Finished

\* a call that ended after the most attempts and the most sleeps
C39_Witness ==
    /\ Finished /\ c_args.max_retries = MaxRetries
    /\ Posts = MaxRetries + 1 /\ Sleeps = MaxRetries

ClientNext ==
    \/ \E data \in ClientPayloads, n \in MinRetries..MaxRetries : send_inference_request(data, n)
    \/ \E outcome \in PostOutcomes : Post(outcome)
    \/ Sleep
    \/ RaiseExhausted

LiveNext ==
    \/ \E data \in ClientPayloads, n \in MinRetries..MaxRetries : send_inference_request(data, n)
    \/ AttemptEnds
    \/ Sleep
    \/ RaiseExhausted

Init == ClientInit /\ ServerInit /\ CodecIdle
InitCodec == ClientInit /\ ServerInit /\ CodecInit
SpecClient == Init /\ [][ClientNext]_vars
SpecClientLive == Init /\ [][LiveNext]_vars /\ ClientFairness
SpecServer == Init /\ [][ServerNext]_vars
SpecSwap == Init /\ [][SwapNext]_vars
SpecCodec == InitCodec /\ [][CodecNext]_vars

====
